---- MODULE Spec2Model ----
(***************************************************************************)
(* Verification engine of Customer_Price_Sending                          *)
(* (src/src/verification_system.py) and the batch draft generator         *)
(* (src/src/email_generator.py).                                           *)
(*                                                                         *)
(* Python strings are sequences of one-character strings, so that          *)
(* str.lower(), str.split('@') and the substring test `a in b` are         *)
(* computed and not assumed.  A value that may be a string, None or an     *)
(* absent dictionary key carries a kind tag next to it.                    *)
(***************************************************************************)
EXTENDS Integers, Sequences, FiniteSets, TLC

VARIABLES
    dbFile,      \* the customer database file on disk
    pc,          \* "new" | "ready" | "crashed": the MultiLayerVerificationSystem object
    customers,   \* CustomerDatabase.data['customers'] of the constructed system
    nextId,      \* how many ids add_customer has handed out
    disk,        \* the pricing files that exist on the filesystem
    outcome,     \* what the last verify_email_send call gave back to its caller
    batch,       \* create_email_drafts_batch: position, loaded customers, drafts, errors
    auditEvents, \* AuditLogger.audit_log: the audit events logged, oldest first
    checked,     \* what the last direct call of a single check gave back
    panel,       \* the dashboard panel's own CustomerDatabase.data['customers']
    verified,    \* what the last calls of verify_customer gave back
    auditFile,   \* the audit file on disk (and the copy kept in the customer database file)
    now,         \* the clock datetime.now() reads, in days
    query,       \* what the logger's last call gave back, until its caller has it
    systemLog,   \* the last line the logger wrote to logs/audit_system.log
    loggers,     \* AuditLogger objects on one audit file, and the threads that log on them
    worker       \* the dashboard's verify-all button and its worker threads

\* the variables of the audit logger beside its in-memory log
auditVars == <<auditFile, now, query, systemLog>>

\* the variables of the concurrent parts
threadVars == <<loggers, worker>>

\* the variables of the operations beside the verifier and the batch
ext == <<checked, panel, verified, auditVars, threadVars>>

vars == <<dbFile, pc, customers, nextId, disk, outcome, batch, auditEvents, ext>>

\* ---------------------------------------------------------------- bounds
MaxCustomers == 2
\* the audit log's length and the clock's last day
MaxEvents == 2
MaxTime == 1

\* ---------------------------------------------------------------- strings
\* str.lower() on one character
LowerCh(c) ==
    CASE c = "A" -> "a"
      [] c = "H" -> "h"
      [] c = "J" -> "j"
      [] c = "P" -> "p"
      [] c = "X" -> "x"
      [] c = "Y" -> "y"
      [] OTHER -> c

\* str.lower()
Lower(s) == [i \in DOMAIN s |-> LowerCh(s[i])]

\* index of the first sep in s at or after position i, or 0
RECURSIVE FindFrom(_, _, _)
FindFrom(s, sep, i) ==
    IF i > Len(s) THEN 0
    ELSE IF s[i] = sep THEN i
    ELSE FindFrom(s, sep, i + 1)

\* str.split(sep): the list of the parts between the separators
RECURSIVE Split(_, _)
Split(s, sep) ==
    LET k == FindFrom(s, sep, 1) IN
    IF k = 0 THEN <<s>>
    ELSE <<SubSeq(s, 1, k - 1)>> \o Split(SubSeq(s, k + 1, Len(s)), sep)

\* the Python test `a in b` on two strings
IsSubstr(a, b) ==
    \E i \in 0..(Len(b) - Len(a)) : SubSeq(b, i + 1, i + Len(a)) = a

\* a Python str value, and None, as the arguments and fields the code reads
Str(s) == [k |-> "str", v |-> s]
NoneVal == [k |-> "none", v |-> <<>>]
Absent == [k |-> "missing", v |-> <<>>]

\* str.strip() of blanks
RECURSIVE Strip(_)
Strip(s) ==
    IF s = <<>> THEN s
    ELSE IF s[1] = " " THEN Strip(Tail(s))
    ELSE IF s[Len(s)] = " " THEN Strip(SubSeq(s, 1, Len(s) - 1))
    ELSE s

\* os.path.join(a, b) on POSIX paths
PathJoin(a, b) ==
    IF Len(b) > 0 /\ b[1] = "/" THEN b
    ELSE IF Len(a) = 0 \/ a[Len(a)] = "/" THEN a \o b
    ELSE a \o <<"/">> \o b

\* ---------------------------------------------------------------- customer records
\* The dictionary a customer record is.  Every key the verifier reads is a
\* field; k tells whether the key holds a value of the expected type, holds
\* None (JSON null), or is absent from the dictionary.
FileGen(path, name, pattern, body) ==
    [k |-> "dict", file_path |-> path, current_filename |-> name,
     filename_pattern |-> pattern, file_body |-> body]
NoFileGen == [k |-> "missing", file_path |-> Absent, current_filename |-> Absent,
              filename_pattern |-> Absent, file_body |-> Absent]

\* customer['verification_status'] as add_customer and verify_customer write it;
\* last_check is None or a timestamp ("set")
VerificationStatus(domain, recipients, file_paths, last_check) ==
    [k |-> "dict", domain_verified |-> domain, recipients_verified |-> recipients,
     file_paths_verified |-> file_paths, last_check |-> last_check]
NoVerificationStatus ==
    [k |-> "missing", domain_verified |-> FALSE, recipients_verified |-> FALSE,
     file_paths_verified |-> FALSE, last_check |-> "none"]

e_ax == <<"a", "@", "x">>
e_AX == <<"A", "@", "X">>
e_hx == <<"h", "@", "x">>
e_ay == <<"a", "@", "y">>
e_noat == <<"a", "x">>

\* A consistent record: its one address lies in its domain, its pricing file
\* name holds the company name.
BaseCustomer ==
    [id |-> "",
     company_name |-> Str(<<"a">>),
     email_domain |-> Str(<<"x">>),
     email_addresses |-> [k |-> "list", v |-> <<e_ax>>],
     recipient_names |-> [k |-> "list", v |-> << <<"j">> >>],
     file_generation |-> FileGen(Str(<<"d">>), Str(<<"p", "A">>), Str(<<"m">>), Str(<<"A">>)),
     active |-> [k |-> "bool", v |-> TRUE],
     verification_status |-> NoVerificationStatus,
     last_verified |-> "absent",
     updated_at |-> "absent"]

\* The customer_data dictionaries handed to add_customer: the consistent
\* record and the records that differ from it in one key.
CustomerData ==
    { BaseCustomer,
      \* the file name does not hold the company name
      [BaseCustomer EXCEPT !.file_generation.current_filename = Str(<<"p">>)],
      \* no filename_pattern key (the shape of the records in tests/)
      [BaseCustomer EXCEPT !.file_generation.filename_pattern = Absent],
      [BaseCustomer EXCEPT !.file_generation.file_path = Str(<<>>)],
      [BaseCustomer EXCEPT !.file_generation = NoFileGen],
      [BaseCustomer EXCEPT !.email_addresses = [k |-> "missing", v |-> <<>>]],
      [BaseCustomer EXCEPT !.recipient_names = [k |-> "list", v |-> <<>>]],
      [BaseCustomer EXCEPT !.recipient_names = [k |-> "none", v |-> <<>>]],
      [BaseCustomer EXCEPT !.company_name = Absent],
      [BaseCustomer EXCEPT !.active = [k |-> "bool", v |-> FALSE]],
      \* upper-case domain, two listed addresses
      [BaseCustomer EXCEPT !.email_domain = Str(<<"X">>),
                           !.email_addresses = [k |-> "list", v |-> <<e_AX, e_hx>>]],
      \* another organisation; its listed address lies outside its domain
      [BaseCustomer EXCEPT !.email_domain = Str(<<"y">>), !.company_name = Str(<<"b">>)],
      [BaseCustomer EXCEPT !.email_domain = NoneVal],
      [BaseCustomer EXCEPT !.email_domain = Absent] }

\* uuid4()[:8].upper(): the n-th fresh identifier
IdName(n) ==
    CASE n = 1 -> "C1" [] n = 2 -> "C2" [] n = 3 -> "C3" [] n = 4 -> "C4"
      [] OTHER -> "C5"

\* ---------------------------------------------------------------- inputs
Emails == { Str(e_ax), Str(e_AX), Str(e_hx), Str(e_ay), Str(e_noat), NoneVal }
RecipientNames == { Str(<<"J", "d">>), Str(<<"b">>), Str(<<>>), NoneVal }
Attachments == { <<"q">> }
\* f"{selected_year % 100:02d}{selected_month:02d}01" for the months a user selects
DatePrefixes == { <<"p">>, <<"o">> }
PricingFiles == { <<"d", "/", "p", "A">>, <<"d", "/", "p">> }

\* ---------------------------------------------------------------- CustomerDatabase
\* get_customer_by_email_domain, the loop over self.data['customers']
RECURSIVE ScanDomain(_, _, _)
ScanDomain(custs, dom, i) ==
    IF i > Len(custs) THEN [st |-> "none", idx |-> 0]
    ELSE LET d == custs[i].email_domain IN
         IF d.k = "missing" THEN [st |-> "raise", idx |-> 0]     \* KeyError: not caught
         ELSE IF d.k = "none" THEN [st |-> "none", idx |-> 0]    \* AttributeError: return None
         ELSE IF Lower(d.v) = dom THEN [st |-> "found", idx |-> i]
         ELSE ScanDomain(custs, dom, i + 1)

\* the lookup as it would be if it took the first record whatever its domain
get_customer_by_email_domain_AnyDomain(custs, email) ==
    IF email.k # "str" THEN [st |-> "none", idx |-> 0]
    ELSE IF Len(Split(email.v, "@")) < 2 \/ custs = <<>> THEN [st |-> "none", idx |-> 0]
    ELSE IF custs[1].email_domain.k = "missing" THEN [st |-> "raise", idx |-> 0]
    ELSE [st |-> "found", idx |-> 1]

get_customer_by_email_domain(custs, email) ==
    IF email.k # "str" THEN [st |-> "none", idx |-> 0]           \* AttributeError
    ELSE LET parts == Split(email.v, "@") IN
         IF Len(parts) < 2 THEN [st |-> "none", idx |-> 0]       \* IndexError
         ELSE ScanDomain(custs, Lower(parts[2]), 1)

\* get_all_customers: self.data.get('customers', []), every record as stored
get_all_customers(custs) == custs

\* is_email_authorized; the caller has checked that both values are there
is_email_authorized(email, rec) ==
    \E i \in DOMAIN rec.email_addresses.v :
        Lower(rec.email_addresses.v[i]) = Lower(email.v)

\* ---------------------------------------------------------------- the checks
Result(name, level, passed) == [check_name |-> name, level |-> level, passed |-> passed]
Ok(r) == [exc |-> FALSE, res |-> r]
Raise == [exc |-> TRUE, res |-> Result("", "info", FALSE)]

\* verify_domain_match as it would be without the two lower() calls
verify_domain_match_CaseSensitive(email, rec) ==
    LET parts == Split(email.v, "@")
        good == /\ email.k = "str"
                /\ Len(parts) >= 2
                /\ rec.email_domain.k = "str"
                /\ parts[2] = rec.email_domain.v
    IN  IF good THEN Ok(Result("domain_verification", "info", TRUE))
        ELSE Ok(Result("domain_verification", "critical", FALSE))

verify_domain_match(email, rec) ==
    LET parts == Split(email.v, "@")
        good == /\ email.k = "str"
                /\ Len(parts) >= 2
                /\ rec.email_domain.k = "str"
                /\ Lower(parts[2]) = Lower(rec.email_domain.v)
    IN  IF good THEN Ok(Result("domain_verification", "info", TRUE))
        \* a mismatch, and every IndexError, AttributeError and KeyError
        ELSE Ok(Result("domain_verification", "critical", FALSE))

\* verify_email_authorization as it would be if an unlisted address were a warning
verify_email_authorization_Warning(email, rec) ==
    IF email.k # "str" \/ rec.email_addresses.k # "list" THEN Raise
    ELSE IF is_email_authorized(email, rec)
         THEN Ok(Result("email_authorization", "info", TRUE))
    ELSE IF rec.company_name.k = "missing" THEN Raise
    ELSE Ok(Result("email_authorization", "warning", FALSE))

verify_email_authorization(email, rec) ==
    IF email.k # "str" \/ rec.email_addresses.k # "list" THEN Raise
    ELSE IF is_email_authorized(email, rec)
         THEN Ok(Result("email_authorization", "info", TRUE))
    ELSE IF rec.company_name.k = "missing" THEN Raise   \* the message reads company_name
    ELSE Ok(Result("email_authorization", "error", FALSE))

verify_pricing_file_exists(rec, dsk) ==
    LET fg == rec.file_generation
        bad == \/ fg.k # "dict"                                   \* KeyError, TypeError
               \/ fg.file_path.k = "missing" \/ fg.current_filename.k = "missing"
               \/ fg.file_path.k = "none" \/ fg.current_filename.k = "none"
               \/ fg.file_path.v = <<>> \/ fg.current_filename.v = <<>>
    IN  IF bad THEN Ok(Result("file_existence", "error", FALSE))
        ELSE IF PathJoin(fg.file_path.v, fg.current_filename.v) \in dsk
             THEN Ok(Result("file_existence", "info", TRUE))
        ELSE Ok(Result("file_existence", "error", FALSE))

verify_filename_pattern(rec) ==
    LET fg == rec.file_generation IN
    IF \/ fg.k # "dict"
       \/ fg.filename_pattern.k = "missing" \/ fg.current_filename.k = "missing"
       \/ rec.company_name.k = "missing"
    THEN Ok(Result("filename_pattern", "warning", FALSE))          \* KeyError, TypeError
    ELSE IF rec.company_name.k = "none" \/ fg.current_filename.k = "none"
         THEN Raise                                                \* AttributeError
    ELSE IF IsSubstr(Lower(rec.company_name.v), Lower(fg.current_filename.v))
         THEN Ok(Result("filename_pattern", "info", TRUE))
    ELSE Ok(Result("filename_pattern", "warning", FALSE))

\* verify_recipient_name as it would be if an unknown recipient were an error
verify_recipient_name_Error(recipient_name, rec) ==
    LET names == rec.recipient_names IN
    IF names.k = "none" THEN Ok(Result("recipient_validation", "error", FALSE))
    ELSE IF names.v = <<>> THEN Ok(Result("recipient_validation", "info", TRUE))
    ELSE IF recipient_name.k # "str" THEN Raise
    ELSE IF \E i \in DOMAIN names.v :
               \/ IsSubstr(Lower(names.v[i]), Lower(recipient_name.v))
               \/ IsSubstr(Lower(recipient_name.v), Lower(names.v[i]))
         THEN Ok(Result("recipient_validation", "info", TRUE))
    ELSE Ok(Result("recipient_validation", "error", FALSE))

verify_recipient_name(recipient_name, rec) ==
    LET names == rec.recipient_names IN
    IF names.k = "none" THEN Ok(Result("recipient_validation", "warning", FALSE))  \* TypeError
    ELSE IF names.v = <<>> THEN Ok(Result("recipient_validation", "info", TRUE))
    ELSE IF recipient_name.k # "str" THEN Raise                  \* AttributeError
    ELSE IF \E i \in DOMAIN names.v :
               \/ IsSubstr(Lower(names.v[i]), Lower(recipient_name.v))
               \/ IsSubstr(Lower(recipient_name.v), Lower(names.v[i]))
         THEN Ok(Result("recipient_validation", "info", TRUE))
    ELSE Ok(Result("recipient_validation", "warning", FALSE))

\* ---------------------------------------------------------------- the levels
\* A level gives [exc, results]: exc when an exception leaves it.
Results(rs) == [exc |-> FALSE, results |-> rs]
RaiseResults == [exc |-> TRUE, results |-> <<>>]

level_1_pre_send_checks(custs, email, recipient_name) ==
    LET found == get_customer_by_email_domain(custs, email) IN
    IF found.st = "raise" THEN RaiseResults
    ELSE IF found.st = "none"
         THEN Results(<<Result("customer_lookup", "critical", FALSE)>>)
    ELSE LET rec == custs[found.idx]
             dm == verify_domain_match(email, rec)
             au == verify_email_authorization(email, rec)
             rn == verify_recipient_name(recipient_name, rec)
         IN  IF dm.exc \/ au.exc \/ rn.exc THEN RaiseResults
             ELSE Results(<<dm.res, au.res, rn.res>>)

\* level 2 as it would be if the pattern check ran before the existence check
level_2_PatternFirst(custs, dsk, email) ==
    LET found == get_customer_by_email_domain(custs, email) IN
    IF found.st = "raise" THEN RaiseResults
    ELSE IF found.st = "none"
         THEN Results(<<Result("customer_lookup_l2", "critical", FALSE)>>)
    ELSE LET rec == custs[found.idx]
             fe == verify_pricing_file_exists(rec, dsk)
             fp == verify_filename_pattern(rec)
         IN  IF fe.exc \/ fp.exc THEN RaiseResults
             ELSE Results(<<fp.res, fe.res>>)

level_2_content_validation(custs, dsk, email) ==
    LET found == get_customer_by_email_domain(custs, email) IN
    IF found.st = "raise" THEN RaiseResults
    ELSE IF found.st = "none"
         THEN Results(<<Result("customer_lookup_l2", "critical", FALSE)>>)
    ELSE LET rec == custs[found.idx]
             fe == verify_pricing_file_exists(rec, dsk)
             fp == verify_filename_pattern(rec)
         IN  IF fe.exc \/ fp.exc THEN RaiseResults
             ELSE Results(<<fe.res, fp.res>>)

Failing(rs, level) == {i \in DOMAIN rs : rs[i].level = level /\ ~rs[i].passed}

\* Classify with the warning branch letting the send through
Classify_WarningSends(all_results) ==
    IF Failing(all_results, "critical") # {} THEN [overall_status |-> "FAIL", can_send |-> FALSE]
    ELSE IF Failing(all_results, "error") # {} THEN [overall_status |-> "FAIL", can_send |-> FALSE]
    ELSE IF Failing(all_results, "warning") # {}
         THEN [overall_status |-> "WARNING", can_send |-> TRUE]
    ELSE [overall_status |-> "PASS", can_send |-> TRUE]

\* Classify without the error_failures branch
Classify_ErrorsIgnored(all_results) ==
    IF Failing(all_results, "critical") # {} THEN [overall_status |-> "FAIL", can_send |-> FALSE]
    ELSE IF Failing(all_results, "warning") # {}
         THEN [overall_status |-> "WARNING", can_send |-> FALSE]
    ELSE [overall_status |-> "PASS", can_send |-> TRUE]

\* Classify without the warnings branch
Classify_WarningsPass(all_results) ==
    IF Failing(all_results, "critical") # {} THEN [overall_status |-> "FAIL", can_send |-> FALSE]
    ELSE IF Failing(all_results, "error") # {} THEN [overall_status |-> "FAIL", can_send |-> FALSE]
    ELSE [overall_status |-> "PASS", can_send |-> TRUE]

\* "Determine overall status" of level_3_final_confirmation
Classify(all_results) ==
    IF Failing(all_results, "critical") # {} THEN [overall_status |-> "FAIL", can_send |-> FALSE]
    ELSE IF Failing(all_results, "error") # {} THEN [overall_status |-> "FAIL", can_send |-> FALSE]
    ELSE IF Failing(all_results, "warning") # {}
         THEN [overall_status |-> "WARNING", can_send |-> FALSE]
    ELSE [overall_status |-> "PASS", can_send |-> TRUE]

\* CustomerVerificationReport (the timestamp is left out)
Report(id, company, email, recipient_name, attachment_file, rs, status, can_send) ==
    [customer_id |-> id, company_name |-> company, email |-> email,
     recipient_name |-> recipient_name, attachment_file |-> attachment_file,
     verification_results |-> rs, overall_status |-> status, can_send |-> can_send]

\* the literals "Unknown" and "System Error" as company names
UnknownCompany == <<"Unknown">>
SystemErrorCompany == <<"System Error">>

\* UnknownReport carrying the check name level 1 uses
UnknownReport_Level1Name(email, recipient_name, attachment_file) ==
    Report("unknown", UnknownCompany, email, recipient_name, attachment_file,
           <<Result("customer_lookup", "critical", FALSE)>>, "FAIL", FALSE)

UnknownReport(email, recipient_name, attachment_file) ==
    Report("unknown", UnknownCompany, email, recipient_name, attachment_file,
           <<Result("final_customer_lookup", "critical", FALSE)>>, "FAIL", FALSE)

SystemErrorReport(email, recipient_name, attachment_file) ==
    Report("error", SystemErrorCompany, email, recipient_name, attachment_file,
           <<Result("system_error", "critical", FALSE)>>, "FAIL", FALSE)

\* level_3_final_confirmation without its `if not customer_record` block: the
\* two levels run, then customer_record['id'] on None raises TypeError
level_3_NoLookupGuard(custs, dsk, email, recipient_name, attachment_file) ==
    LET found == get_customer_by_email_domain(custs, email)
        none == UnknownReport(email, recipient_name, attachment_file)
    IN
    IF found.st # "found" THEN [exc |-> TRUE, report |-> none]
    ELSE LET rec == custs[found.idx]
             l1 == level_1_pre_send_checks(custs, email, recipient_name)
             l2 == level_2_content_validation(custs, dsk, email)
             all_results == l1.results \o l2.results
             cls == Classify(all_results)
         IN  IF l1.exc \/ l2.exc \/ rec.company_name.k = "missing"
             THEN [exc |-> TRUE, report |-> none]
             ELSE [exc |-> FALSE,
                   report |-> Report(rec.id, rec.company_name.v, email, recipient_name,
                                     attachment_file, all_results,
                                     cls.overall_status, cls.can_send)]

\* level_3_final_confirmation that stops after level 1 when level 1 failed
level_3_ShortCircuit(custs, dsk, email, recipient_name, attachment_file) ==
    LET found == get_customer_by_email_domain(custs, email)
        none == UnknownReport(email, recipient_name, attachment_file)
    IN
    IF found.st = "raise" THEN [exc |-> TRUE, report |-> none]
    ELSE IF found.st = "none" THEN [exc |-> FALSE, report |-> none]
    ELSE LET rec == custs[found.idx]
             l1 == level_1_pre_send_checks(custs, email, recipient_name)
             l2 == level_2_content_validation(custs, dsk, email)
             stop == \E i \in DOMAIN l1.results : ~l1.results[i].passed
             all_results == IF stop THEN l1.results ELSE l1.results \o l2.results
             cls == Classify(all_results)
         IN  IF l1.exc \/ (~stop /\ l2.exc) \/ rec.company_name.k = "missing"
             THEN [exc |-> TRUE, report |-> none]
             ELSE [exc |-> FALSE,
                   report |-> Report(rec.id, rec.company_name.v, email, recipient_name,
                                     attachment_file, all_results,
                                     cls.overall_status, cls.can_send)]

\* level_3_final_confirmation gives [exc, report]
level_3_final_confirmation(custs, dsk, email, recipient_name, attachment_file) ==
    LET found == get_customer_by_email_domain(custs, email)
        none == UnknownReport(email, recipient_name, attachment_file)
    IN
    IF found.st = "raise" THEN [exc |-> TRUE, report |-> none]
    ELSE IF found.st = "none" THEN [exc |-> FALSE, report |-> none]
    ELSE LET rec == custs[found.idx]
             l1 == level_1_pre_send_checks(custs, email, recipient_name)
             l2 == level_2_content_validation(custs, dsk, email)
             all_results == l1.results \o l2.results
             cls == Classify(all_results)
         IN  IF l1.exc \/ l2.exc \/ rec.company_name.k = "missing"
             THEN [exc |-> TRUE, report |-> none]
             ELSE [exc |-> FALSE,
                   report |-> Report(rec.id, rec.company_name.v, email, recipient_name,
                                     attachment_file, all_results,
                                     cls.overall_status, cls.can_send)]

\* verify_email_send without its try/except
verify_email_send_NoTry(custs, dsk, email, recipient_name, attachment_file) ==
    LET r == level_3_final_confirmation(custs, dsk, email, recipient_name, attachment_file) IN
    [raised |-> r.exc, exc |-> r.exc, report |-> r.report]

\* verify_email_send gives what its caller sees: a report, or (raised) an
\* exception.  exc records whether an exception was raised while the checks
\* were evaluated, inside the try block.
verify_email_send(custs, dsk, email, recipient_name, attachment_file) ==
    LET r == level_3_final_confirmation(custs, dsk, email, recipient_name, attachment_file) IN
    IF r.exc
    THEN [raised |-> FALSE, exc |-> TRUE,
          report |-> SystemErrorReport(email, recipient_name, attachment_file)]
    ELSE [raised |-> FALSE, exc |-> FALSE, report |-> r.report]

\* get_verification_preview: the record of the candidate's domain, the domain
\* check and the file check; raised when an exception leaves the method, which
\* has no try block
NoPreview == [raised |-> FALSE, customer |-> UnknownCompany, status |-> "FAIL", can_send |-> FALSE]
get_verification_preview(custs, dsk, email, recipient_name, attachment_file) ==
    LET found == get_customer_by_email_domain(custs, email) IN
    IF found.st = "raise" THEN [NoPreview EXCEPT !.raised = TRUE]
    ELSE IF found.st = "none" THEN NoPreview
    ELSE LET rec == custs[found.idx]
             domain_result == verify_domain_match(email, rec)
             file_result == verify_pricing_file_exists(rec, dsk)
         IN  IF domain_result.exc \/ file_result.exc \/ rec.company_name.k = "missing"
             THEN [NoPreview EXCEPT !.raised = TRUE]
             ELSE [raised |-> FALSE, customer |-> rec.company_name.v, status |-> "PREVIEW",
                   can_send |-> domain_result.res.passed /\ file_result.res.passed]

\* ---------------------------------------------------------------- state machine
\* The database file: "missing" (no such file), "malformed" (not JSON),
\* "nokey" (JSON without a 'customers' entry that has a length) or "json".
DbFile(kind, custs) == [k |-> kind, customers |-> custs]

\* what verify_email_send gave to its caller, until the caller is done with it
NoOutcome ==
    [called |-> FALSE, raised |-> FALSE, exc |-> FALSE,
     report |-> UnknownReport(NoneVal, NoneVal, <<>>), preview |-> NoPreview]

\* create_email_drafts_batch: where it is (pc, idx), the customers it read, the
\* date prefix of its file names, the drafts saved in Outlook, results['errors']
IdleBatch ==
    [pc |-> "idle", idx |-> 0, customers |-> <<>>, prefix |-> <<>>, drafts |-> {},
     errors |-> {}, success |-> FALSE]

\* no check has been called on its own yet
NoCheck == [called |-> FALSE, email |-> NoneVal, idx |-> 0, res |-> Result("", "info", FALSE)]

\* no audit file on disk, nothing asked of the audit logger yet
NoAuditFile == [k |-> "missing", events |-> <<>>, database_audit_log |-> <<>>]
NoDate == [k |-> "none", t |-> 0]
NoQuery ==
    [op |-> "none", args |-> <<>>, days |-> 0, events |-> <<>>, report |-> <<>>,
     raised |-> FALSE]

\* no AuditLogger objects beside the one of auditEvents, no thread on them
NoLoggers == [audit_log |-> <<>>, thread |-> <<>>]

\* the verify-all button as the panel builds it, and no worker thread
NoWorker == [verify_all_btn |-> "normal", threads |-> <<>>, exit |-> "none"]

\* logs/audit_system.log before the logger wrote a line
NoLine == ""

\* no direct call of update_customer has returned
NoUpdate == [id |-> "", found |-> FALSE, data |-> <<>>]

\* verify_customer has not been called since the store last changed otherwise
NoVerify ==
    [n |-> 0, id |-> "", overall_status |-> "", issues |-> <<>>,
     prev_status |-> "", prev_issues |-> <<>>, update |-> NoUpdate]

Init ==
    /\ dbFile \in {DbFile("missing", <<>>), DbFile("malformed", <<>>), DbFile("nokey", <<>>),
                  DbFile("json", <<>>)}
    /\ pc = "new"
    /\ customers = <<>>
    /\ nextId = 0
    /\ disk \in SUBSET PricingFiles
    /\ outcome = NoOutcome
    /\ batch = IdleBatch
    /\ auditEvents = <<>>
    /\ checked = NoCheck
    /\ panel = <<>>
    /\ verified = NoVerify
    /\ auditFile = NoAuditFile
    /\ now = 0
    /\ query = NoQuery
    /\ systemLog = NoLine
    /\ loggers = NoLoggers
    /\ worker = NoWorker

\* load_database as it would be if a failed read left an empty store behind
load_database_EmptyOnError(file) ==
    [exc |-> FALSE, customers |-> IF file.k = "json" THEN file.customers ELSE <<>>]

\* CustomerDatabase.load_database: the data read, or the exception of open(),
\* json.load() or len(self.data['customers']) logged and re-raised
load_database(file) ==
    IF file.k = "json" THEN [exc |-> FALSE, customers |-> file.customers]
    ELSE [exc |-> TRUE, customers |-> <<>>]

\* MultiLayerVerificationSystem.__init__ (CustomerDatabase.__init__ within it)
Construct ==
    /\ pc = "new"
    /\ LET l == load_database(dbFile) IN
       /\ pc' = IF l.exc THEN "crashed" ELSE "ready"
       /\ customers' = l.customers
    /\ UNCHANGED <<dbFile, nextId, disk, outcome, batch, auditEvents, ext>>

\* CustomerDatabase.add_customer up to its save: the record gets a fresh id,
\* 'Never' as last_verified and an all-false verification_status (and a
\* created_at stamp nothing reads), and is appended
add_customer(custs, data, customer_id) ==
    Append(custs, [data EXCEPT !.id = customer_id,
                               !.last_verified = "Never",
                               !.verification_status =
                                   VerificationStatus(FALSE, FALSE, FALSE, "none")])

\* CustomerDatabase.add_customer, save_database included
AddCustomer(data) ==
    /\ pc = "ready"
    /\ ~outcome.called
    /\ Len(customers) < MaxCustomers
    /\ nextId' = nextId + 1
    /\ customers' = add_customer(customers, data, IdName(nextId + 1))
    /\ dbFile' = DbFile("json", customers')
    /\ UNCHANGED <<pc, disk, outcome, batch, auditEvents, ext>>

\* run_verification_test calls verify_email_send and then
\* get_verification_preview on the same arguments: the calls are synchronous, the
\* caller holds the report before it does anything else
VerifyEmailSend(email, recipient_name, attachment_file) ==
    /\ pc = "ready"
    /\ ~outcome.called
    /\ LET r == verify_email_send(customers, disk, email, recipient_name, attachment_file) IN
       outcome' = [called |-> TRUE, raised |-> r.raised, exc |-> r.exc, report |-> r.report,
                   preview |-> get_verification_preview(customers, disk, email,
                                                        recipient_name, attachment_file)]
    /\ UNCHANGED <<dbFile, pc, customers, nextId, disk, batch, auditEvents, ext>>

\* run_verification_test has written the report to its text widget (or the
\* error, when the call raised) and returns
ReportShown ==
    /\ outcome.called
    /\ outcome' = NoOutcome
    /\ UNCHANGED <<dbFile, pc, customers, nextId, disk, batch, auditEvents, ext>>

Next ==
    \/ Construct
    \/ \E data \in CustomerData : AddCustomer(data)
    \/ \E email \in Emails, recipient_name \in RecipientNames, attachment_file \in Attachments :
          VerifyEmailSend(email, recipient_name, attachment_file)
    \/ ReportShown

Spec == Init /\ [][Next]_vars

\* ---------------------------------------------------------------- the batch run
\* create_email_drafts_batch up to its loop: COM, templates, Outlook, the
\* database file read anew.  Every failure ends the run with success = False.
BatchStart(prefix, outlookUp) ==
    /\ batch.pc = "idle"
    /\ batch' = IF outlookUp /\ dbFile.k = "json"
                THEN [batch EXCEPT !.pc = "running", !.customers = dbFile.customers,
                                   !.prefix = prefix]
                ELSE [batch EXCEPT !.pc = "done", !.errors = {[customer_id |-> "", what |-> "critical"]}]
    /\ UNCHANGED <<dbFile, pc, customers, nextId, disk, outcome, auditEvents, ext>>

\* customer.get('company_name', 'Unknown')
BatchCustomerName(c) == IF c.company_name.k = "missing" THEN UnknownCompany ELSE c.company_name.v

\* f"{date_prefix}{file_body}", file_body defaulting to _Pricing_<name>.pdf
BatchFilename(c, prefix) ==
    LET fg == c.file_generation
        body == IF fg.k = "dict" /\ fg.file_body.k = "str" THEN fg.file_body.v
                ELSE <<"_">> \o BatchCustomerName(c)
    IN  prefix \o body

\* file_info.get('file_path', '').strip()
BatchFolder(c) ==
    LET fg == c.file_generation IN
    IF fg.k = "dict" /\ fg.file_path.k = "str" THEN Strip(fg.file_path.v) ELSE <<>>

\* the statements of the loop body raise: a list-shaped file_generation or a
\* null file_path (AttributeError), or Outlook refusing a call
BatchRaises(c, comOk) ==
    \/ ~comOk
    \/ c.file_generation.k = "list"
    \/ c.file_generation.k = "dict" /\ c.file_generation.file_path.k = "none"

\* one turn of the loop `for index, customer in enumerate(customers)`
BatchStep(comOk) ==
    /\ batch.pc = "running"
    /\ batch.idx < Len(batch.customers)
    /\ LET c == batch.customers[batch.idx + 1]
           folder == BatchFolder(c)
           filename == BatchFilename(c, batch.prefix)
           found == folder # <<>> /\ PathJoin(folder, filename) \in disk
           missing == folder # <<>> /\ PathJoin(folder, filename) \notin disk
       IN
       batch' =
          IF c.active.k = "bool" /\ ~c.active.v
          THEN [batch EXCEPT !.idx = @ + 1]                          \* continue
          ELSE IF BatchRaises(c, comOk)
          THEN [batch EXCEPT !.idx = @ + 1,
                             !.errors = @ \cup {[customer_id |-> c.id, what |-> "error"]}]
          ELSE [batch EXCEPT !.idx = @ + 1,
                             !.drafts = @ \cup {[customer_id |-> c.id, attached |-> found]},
                             !.errors = IF missing
                                        THEN @ \cup {[customer_id |-> c.id, what |-> "not found"]}
                                        ELSE @]
    /\ UNCHANGED <<dbFile, pc, customers, nextId, disk, outcome, auditEvents, ext>>

\* after the loop: results['success'] = True, COM released, results returned
BatchFinish ==
    /\ batch.pc = "running"
    /\ batch.idx = Len(batch.customers)
    /\ batch' = [batch EXCEPT !.pc = "done", !.success = TRUE]
    /\ UNCHANGED <<dbFile, pc, customers, nextId, disk, outcome, auditEvents, ext>>

NextBatch ==
    \/ Construct
    \/ \E data \in CustomerData : AddCustomer(data)
    \/ \E prefix \in DatePrefixes, outlookUp \in BOOLEAN : BatchStart(prefix, outlookUp)
    \/ \E comOk \in BOOLEAN : BatchStep(comOk)
    \/ BatchFinish

SpecBatch == Init /\ [][NextBatch]_vars

\* ---------------------------------------------------------------- properties
\* the report a caller of verify_email_send holds
Returned == outcome.called /\ ~outcome.raised
rep == outcome.report
FailedAt(level) == Failing(rep.verification_results, level) # {}

\* C1: every report returned by verify_email_send has can_send = true
\* exactly when its overall_status is "PASS".
C1_CanSendIffPass ==
    Returned => (rep.can_send <=> rep.overall_status = "PASS")

\* a returned report that lets the send through
C1_Witness ==
    Returned /\ rep.can_send /\ rep.overall_status = "PASS" /\ rep.customer_id = "C1"

\* C3: a report holding a result that failed at CRITICAL or ERROR has
\* overall_status "FAIL".
C3_FailureForcesFail ==
    Returned /\ (FailedAt("critical") \/ FailedAt("error")) => rep.overall_status = "FAIL"

\* a report of a resolved record whose only blocking failure is at ERROR
C3_Witness ==
    /\ Returned /\ FailedAt("error") /\ ~FailedAt("critical")
    /\ Len(rep.verification_results) = 5
    /\ rep.overall_status = "FAIL"

\* C4: a report in which nothing failed at ERROR or CRITICAL and something
\* failed at WARNING has overall_status "WARNING" and can_send = false.
C4_WarningBlocks ==
    Returned /\ ~FailedAt("critical") /\ ~FailedAt("error") /\ FailedAt("warning")
        => rep.overall_status = "WARNING" /\ ~rep.can_send

\* a report whose only failures are warnings
C4_Witness ==
    /\ Returned /\ ~FailedAt("critical") /\ ~FailedAt("error") /\ FailedAt("warning")
    /\ rep.overall_status = "WARNING"

\* C9: verify_email_send never lets an exception of the checks through;
\* such an exception gives a report with the one failed CRITICAL
\* system_error result, "FAIL" and can_send = false.
C9_FailsClosed ==
    outcome.called =>
        /\ ~outcome.raised
        /\ outcome.exc =>
              /\ rep.verification_results = <<Result("system_error", "critical", FALSE)>>
              /\ rep.overall_status = "FAIL"
              /\ ~rep.can_send

\* the call met a resolved record without email_addresses
C9_Witness ==
    /\ outcome.called /\ outcome.exc
    /\ rep.customer_id = "error"
    /\ LET found == get_customer_by_email_domain(customers, rep.email) IN
       found.st = "found" /\ customers[found.idx].email_addresses.k = "missing"

\* the domain of a candidate email that has one: the text after the first "@"
HasDomain(email) == email.k = "str" /\ Len(Split(email.v, "@")) >= 2
DomainOf(email) == Lower(Split(email.v, "@")[2])

\* every record of the store names a domain, and none is the candidate's
NoRecordForDomain(email) ==
    /\ HasDomain(email)
    /\ \A i \in DOMAIN customers :
          /\ customers[i].email_domain.k = "str"
          /\ Lower(customers[i].email_domain.v) # DomainOf(email)

\* the candidate fits record r: listed address in r's domain, a recipient
\* name of r, r's pricing file on disk
Fits(r, email, recipient_name) ==
    /\ HasDomain(email)
    /\ r.email_domain.k = "str" /\ Lower(r.email_domain.v) = DomainOf(email)
    /\ r.email_addresses.k = "list"
    /\ \E i \in DOMAIN r.email_addresses.v : Lower(r.email_addresses.v[i]) = Lower(email.v)
    /\ recipient_name.k = "str" /\ recipient_name.v # <<>> /\ r.recipient_names.k = "list"
    /\ \E i \in DOMAIN r.recipient_names.v :
          \/ IsSubstr(Lower(r.recipient_names.v[i]), Lower(recipient_name.v))
          \/ IsSubstr(Lower(recipient_name.v), Lower(r.recipient_names.v[i]))
    /\ r.company_name.k = "str"
    /\ r.file_generation.k = "dict"
    /\ r.file_generation.file_path.k = "str" /\ r.file_generation.current_filename.k = "str"
    /\ PathJoin(r.file_generation.file_path.v, r.file_generation.current_filename.v) \in disk

\* C5: for a candidate that fits the one record of its domain (listed
\* address, recipient name, pricing file on disk) verify_email_send gives
\* "PASS", can_send = true and the record's company name.
C5_FittingCandidatePasses ==
    outcome.called /\ Len(customers) = 1 /\ Fits(customers[1], rep.email, rep.recipient_name)
        => /\ ~outcome.raised
           /\ rep.overall_status = "PASS" /\ rep.can_send
           /\ rep.company_name = customers[1].company_name.v

\* C6 as claimed: with records for other domains only, the report holds a
\* domain-match result failed at CRITICAL, and overall_status is "FAIL".
C6_DomainMatchResult ==
    Returned /\ customers # <<>> /\ NoRecordForDomain(rep.email)
        => /\ \E i \in DOMAIN rep.verification_results :
                 rep.verification_results[i] = Result("domain_verification", "critical", FALSE)
           /\ rep.overall_status = "FAIL"

\* C6 amended: with records for other domains only, the report holds the one
\* failed CRITICAL result final_customer_lookup and no domain-match result,
\* and overall_status is "FAIL".
C6_LookupFailureResult ==
    outcome.called /\ customers # <<>> /\ NoRecordForDomain(rep.email)
        => /\ ~outcome.raised
           /\ rep.verification_results = <<Result("final_customer_lookup", "critical", FALSE)>>
           /\ rep.overall_status = "FAIL"

\* a call with a candidate of another domain than the store's record
C6_Witness ==
    /\ Returned /\ Len(customers) = 1 /\ NoRecordForDomain(rep.email)
    /\ customers[1].email_domain.v = <<"x">> /\ DomainOf(rep.email) = <<"y">>
    /\ rep.overall_status = "FAIL"

CheckSet ==
    {"domain_verification", "email_authorization", "recipient_validation",
     "file_existence", "filename_pattern"}
ResultNames == {rep.verification_results[i].check_name : i \in DOMAIN rep.verification_results}

\* C8 as claimed: every returned report holds the complete check set.
C8_EveryReportComplete ==
    Returned => CheckSet \subseteq ResultNames

\* C8 amended: every report returned for a resolved customer record holds
\* the complete check set, one result per check, also when an earlier check
\* failed; the reports of the lookup-failure and system-error paths hold
\* their one synthetic result.
C8_ResolvedReportComplete ==
    Returned =>
        IF rep.customer_id \in {"unknown", "error"}
        THEN Len(rep.verification_results) = 1 /\ ResultNames \cap CheckSet = {}
        ELSE Len(rep.verification_results) = 5 /\ ResultNames = CheckSet

\* a complete report whose second check, email authorization, failed
C8_Witness ==
    /\ Returned /\ rep.customer_id = "C1"
    /\ \E i \in DOMAIN rep.verification_results :
          rep.verification_results[i] = Result("email_authorization", "error", FALSE)
    /\ ResultNames = CheckSet

\* C10: a system created over a database file that does not exist does not
\* crash, and its verify_email_send gives "FAIL" with can_send = false.
C10_MissingFileFailsSafe ==
    dbFile.k = "missing" /\ pc # "new"
        => /\ pc = "ready"
           /\ outcome.called => ~outcome.raised /\ rep.overall_status = "FAIL" /\ ~rep.can_send

\* the send candidates the batch has for customer c: each of its addresses,
\* with its first recipient name and the file name the batch looks for
BatchCandidatesPass(c) ==
    /\ c.email_addresses.k = "list" /\ c.email_addresses.v # <<>>
    /\ c.recipient_names.k = "list" /\ c.recipient_names.v # <<>>
    /\ \A i \in DOMAIN c.email_addresses.v :
          LET r == verify_email_send(batch.customers, disk, Str(c.email_addresses.v[i]),
                                     Str(c.recipient_names.v[1]),
                                     BatchFilename(c, batch.prefix))
          IN  ~r.raised /\ r.report.can_send

\* C2: in a batch run a draft exists only for a customer whose send
\* candidate verifies with can_send = true, and every customer the run has
\* handled, drafted or blocked, has an audit event.
C2_DraftOnlyAfterVerification ==
    /\ \A d \in batch.drafts :
          \E i \in 1..batch.idx :
             batch.customers[i].id = d.customer_id /\ BatchCandidatesPass(batch.customers[i])
    /\ \A i \in 1..batch.idx :
          (batch.customers[i].active.k = "bool" => batch.customers[i].active.v)
             => \E j \in DOMAIN auditEvents : auditEvents[j].customer_id = batch.customers[i].id

Inactive(r) == r.active.k = "bool" /\ ~r.active.v

\* every record of the candidate's domain is soft-deleted, and there is one
OnlyInactiveForDomain(email) ==
    /\ HasDomain(email)
    /\ \A i \in DOMAIN customers : customers[i].email_domain.k = "str"
    /\ \E i \in DOMAIN customers : Lower(customers[i].email_domain.v) = DomainOf(email)
    /\ \A i \in DOMAIN customers :
          Lower(customers[i].email_domain.v) = DomainOf(email) => Inactive(customers[i])

\* C12: records with active = false are returned neither by the listing
\* (get_all_customers) nor by the domain lookup; a candidate whose domain
\* belongs to soft-deleted records only is treated as having no record.
C12_InactiveNeverReturned ==
    /\ \A i \in DOMAIN get_all_customers(customers) :
           ~Inactive(get_all_customers(customers)[i])
    /\ Returned /\ OnlyInactiveForDomain(rep.email) => rep.customer_id = "unknown"


\* ---------------------------------------------------------------- single checks
\* A caller (tests/test_verification_system.py, get_verification_preview)
\* applies verify_domain_match to an address and a record of the store.
CheckDomainMatch(email, i) ==
    /\ pc = "ready"
    /\ i \in DOMAIN customers
    /\ checked' = [called |-> TRUE, email |-> email, idx |-> i,
                   res |-> verify_domain_match(email, customers[i]).res]
    /\ UNCHANGED <<dbFile, pc, customers, nextId, disk, outcome, batch, auditEvents, panel, verified, auditVars, threadVars>>

\* the addresses a record lists, and the candidate addresses
ListedOrCandidate(i) ==
    Emails \cup (IF customers[i].email_addresses.k = "list"
                 THEN {Str(customers[i].email_addresses.v[j]) :
                          j \in DOMAIN customers[i].email_addresses.v}
                 ELSE {})

NextChecks ==
    \/ Construct
    \/ \E data \in CustomerData : AddCustomer(data)
    \/ \E i \in DOMAIN customers : \E email \in ListedOrCandidate(i) : CheckDomainMatch(email, i)

SpecChecks == Init /\ [][NextChecks]_vars

\* ---------------------------------------------------------------- C16
\* the checked address is one the checked record lists
CheckedListed ==
    /\ checked.called
    /\ customers[checked.idx].email_addresses.k = "list"
    /\ \E j \in DOMAIN customers[checked.idx].email_addresses.v :
          checked.email = Str(customers[checked.idx].email_addresses.v[j])

\* the checked address lies in the checked record's domain, ignoring case
CheckedSameDomain ==
    /\ HasDomain(checked.email)
    /\ customers[checked.idx].email_domain.k = "str"
    /\ DomainOf(checked.email) = Lower(customers[checked.idx].email_domain.v)

\* C16: for every record and every address it lists, verify_domain_match
\* returns passed = false at CRITICAL when the address's domain differs from
\* the record's email_domain ignoring case, and passed = true at INFO when
\* the two are equal ignoring case.
C16_DomainMatchDecides ==
    CheckedListed =>
        IF CheckedSameDomain
        THEN checked.res = Result("domain_verification", "info", TRUE)
        ELSE checked.res = Result("domain_verification", "critical", FALSE)

\* a listed address outside its record's domain was refused
C16_Witness ==
    CheckedListed /\ ~CheckedSameDomain /\ checked.res = Result("domain_verification", "critical", FALSE)

\* a listed address that differs from its record's domain in case only was accepted
C16_CaseWitness ==
    /\ CheckedListed /\ CheckedSameDomain /\ checked.res.passed
    /\ Split(checked.email.v, "@")[2] # customers[checked.idx].email_domain.v

\* ---------------------------------------------------------------- C17
\* the record the lookup resolves for the candidate lists addresses, and the
\* candidate is none of them, ignoring case
InDomainUnlisted(email) ==
    /\ HasDomain(email)
    /\ \E i \in DOMAIN customers :
          /\ \A j \in 1..i : customers[j].email_domain.k = "str"
          /\ \A j \in 1..(i - 1) : Lower(customers[j].email_domain.v) # DomainOf(email)
          /\ Lower(customers[i].email_domain.v) = DomainOf(email)
          /\ customers[i].email_addresses.k = "list"
          /\ \A j \in DOMAIN customers[i].email_addresses.v :
                Lower(customers[i].email_addresses.v[j]) # Lower(email.v)

\* C17: for a candidate address in the record's domain that the record does
\* not list (ignoring case), verify_email_send returns overall_status "FAIL"
\* with can_send = false, and the email-authorization result of the report
\* has passed = false at ERROR.  (When a check raises, on a record without
\* company_name or a recipient name that is None, the report is the
\* system-error report, customer_id "error", which holds no check's result.)
C17_UnlistedAddressFails ==
    Returned /\ InDomainUnlisted(rep.email) =>
        /\ rep.overall_status = "FAIL" /\ ~rep.can_send
        /\ rep.customer_id # "error" =>
              \E i \in DOMAIN rep.verification_results :
                  rep.verification_results[i] = Result("email_authorization", "error", FALSE)

\* an unlisted address of the record's domain was refused by the authorization check
C17_Witness ==
    /\ Returned /\ InDomainUnlisted(rep.email)
    /\ rep.customer_id = "C1" /\ rep.overall_status = "FAIL"
    /\ \E i \in DOMAIN rep.verification_results :
          rep.verification_results[i] = Result("email_authorization", "error", FALSE)

\* ---------------------------------------------------------------- C18
\* the report is about a record of the store, and r is that record
ReportOn(r) ==
    /\ Returned
    /\ \E i \in DOMAIN customers : customers[i] = r /\ r.id = rep.customer_id

\* r lists recipient names and the candidate name matches none of them
\* (neither contains the other, ignoring case)
MatchesNoName(r, recipient_name) ==
    /\ recipient_name.k = "str"
    /\ r.recipient_names.k = "list" /\ r.recipient_names.v # <<>>
    /\ \A i \in DOMAIN r.recipient_names.v :
          /\ ~IsSubstr(Lower(r.recipient_names.v[i]), Lower(recipient_name.v))
          /\ ~IsSubstr(Lower(recipient_name.v), Lower(r.recipient_names.v[i]))

\* every result of the report but the recipient check's passed
OthersPass ==
    \A i \in DOMAIN rep.verification_results :
        rep.verification_results[i].check_name # "recipient_validation"
            => rep.verification_results[i].passed

\* C18: when every other check passes and the candidate recipient name
\* matches none of the record's non-empty recipient_names, the recipient
\* check is the only failing result, it fails at WARNING, and the report is
\* "WARNING" with can_send = false; when the record lists no recipient
\* names the recipient check passes.
C18_RecipientOnlyWarns ==
    \A i \in DOMAIN customers :
        ReportOn(customers[i]) =>
            /\ MatchesNoName(customers[i], rep.recipient_name) /\ OthersPass =>
                  /\ \E j \in DOMAIN rep.verification_results :
                        rep.verification_results[j] = Result("recipient_validation", "warning", FALSE)
                  /\ Failing(rep.verification_results, "critical") = {}
                  /\ Failing(rep.verification_results, "error") = {}
                  /\ rep.overall_status = "WARNING" /\ ~rep.can_send
            /\ customers[i].recipient_names.k = "list" /\ customers[i].recipient_names.v = <<>> =>
                  \E j \in DOMAIN rep.verification_results :
                      rep.verification_results[j] = Result("recipient_validation", "info", TRUE)

\* a candidate that only the recipient check refused
C18_Witness ==
    \E i \in DOMAIN customers :
        /\ ReportOn(customers[i])
        /\ MatchesNoName(customers[i], rep.recipient_name) /\ OthersPass
        /\ rep.overall_status = "WARNING"

\* a report on a record that lists no recipient names
C18_NoNamesWitness ==
    \E i \in DOMAIN customers :
        /\ ReportOn(customers[i]) /\ customers[i].recipient_names.v = <<>>
        /\ customers[i].recipient_names.k = "list" /\ rep.overall_status = "PASS"

\* ---------------------------------------------------------------- the customer store
\* get_customer_by_id: the place of the first record with that id, 0 for None
RECURSIVE get_customer_by_id(_, _, _)
get_customer_by_id(custs, customer_id, i) ==
    IF i > Len(custs) THEN 0
    ELSE IF custs[i].id = customer_id THEN i
    ELSE get_customer_by_id(custs, customer_id, i + 1)

\* update_customer as it would be if an unknown id were added to the store
update_customer_Upsert(custs, customer_id, customer_data) ==
    LET i == get_customer_by_id(custs, customer_id, 1) IN
    IF i = 0
    THEN [found |-> TRUE,
          customers |-> Append(custs, [customer_data EXCEPT !.id = customer_id,
                                                            !.updated_at = "set"])]
    ELSE [found |-> TRUE,
          customers |-> [custs EXCEPT ![i] =
                            [customer_data EXCEPT !.id = customer_id, !.updated_at = "set"]]]

\* update_customer up to its save: the first record with that id is replaced
\* by customer_data, which gets the id and an updated_at stamp
update_customer(custs, customer_id, customer_data) ==
    LET i == get_customer_by_id(custs, customer_id, 1) IN
    IF i = 0 THEN [found |-> FALSE, customers |-> custs]
    ELSE [found |-> TRUE,
          customers |-> [custs EXCEPT ![i] =
                            [customer_data EXCEPT !.id = customer_id, !.updated_at = "set"]]]

\* delete_customer up to its save: `del self.data['customers'][i]`
delete_customer(custs, customer_id) ==
    LET i == get_customer_by_id(custs, customer_id, 1) IN
    IF i = 0 THEN [found |-> FALSE, customers |-> custs]
    ELSE [found |-> TRUE,
          customers |-> SubSeq(custs, 1, i - 1) \o SubSeq(custs, i + 1, Len(custs))]

\* bool(customer.get('email_addresses')) and bool(file_generation.get('file_path'))
HasAddresses(r) == r.email_addresses.k = "list" /\ r.email_addresses.v # <<>>
HasFilePath(fg) == fg.file_path.k = "str" /\ fg.file_path.v # <<>>

\* verify_customer, lines 517-539: the issues found, as the messages' kinds.
\* A list-shaped file_generation is the empty list here.
Issues(r) ==
    (IF r.verification_status.k = "dict" /\ r.verification_status.domain_verified
     THEN <<>> ELSE <<"Domain not verified">>)
    \o (IF HasAddresses(r) THEN <<>> ELSE <<"No email addresses configured">>)
    \o (IF r.file_generation.k \in {"missing", "list"}
        THEN <<"No file generation paths configured">>
        ELSE IF HasFilePath(r.file_generation) THEN <<>>
        ELSE <<"Missing file path in file generation config">>)

\* verify_customer, lines 541-547
OverallStatus(issues) ==
    IF issues = <<>> THEN "passed"
    ELSE IF \E i \in DOMAIN issues : issues[i] = "No email addresses configured"
         THEN "failed"
    ELSE "warning"

\* MultiLayerVerificationSystem.verify_customer on the verifier's own
\* database: [exc, overall_status, issues, saved, customers].  A record
\* without verification_status raises KeyError at the first write.
verify_customer(custs, customer_id) ==
    LET i == get_customer_by_id(custs, customer_id, 1) IN
    IF i = 0
    THEN [exc |-> FALSE, overall_status |-> "failed", issues |-> <<"not found">>,
          saved |-> FALSE, customers |-> custs]
    ELSE LET r == custs[i]
             issues == Issues(r)
             overall_status == OverallStatus(issues)
             status == VerificationStatus(
                           overall_status # "failed",
                           HasAddresses(r),
                           r.file_generation.k = "dict" /\ HasFilePath(r.file_generation),
                           "set")
             customer == [r EXCEPT !.verification_status = status, !.last_verified = "date"]
         IN  IF r.verification_status.k # "dict"
             THEN [exc |-> TRUE, overall_status |-> "", issues |-> <<>>,
                   saved |-> FALSE, customers |-> custs]
             ELSE [exc |-> FALSE, overall_status |-> overall_status, issues |-> issues,
                   saved |-> TRUE,
                   customers |-> update_customer(custs, customer_id, customer).customers]

\* ---------------------------------------------------------------- the dashboard's customer panel
\* dashboard.py, CustomerManagementPanel: a CustomerDatabase of its own
\* (panel) next to the verifier's (customers), both read from the same file.

\* 'file_generation': [] as add_customer_dialog writes it
ListFileGen == [k |-> "list", file_path |-> Absent, current_filename |-> Absent,
                filename_pattern |-> Absent, file_body |-> Absent]

\* the customer_data of add_customer_dialog.save_customer: company, domain
\* and addresses are not empty, file_generation is the empty list
PanelData ==
    { [BaseCustomer EXCEPT !.file_generation = ListFileGen],
      [BaseCustomer EXCEPT !.file_generation = ListFileGen,
                           !.email_domain = Str(<<"y">>), !.company_name = Str(<<"b">>),
                           !.email_addresses = [k |-> "list", v |-> <<e_ay>>]] }

\* records the file holds when the panel opens: one written by add_customer
\* in an earlier session, one verified since, one without verification_status
SeedRecords ==
    { [BaseCustomer EXCEPT !.id = "S1", !.last_verified = "Never",
                           !.verification_status = VerificationStatus(FALSE, FALSE, FALSE, "none")],
      [BaseCustomer EXCEPT !.id = "S1", !.last_verified = "date",
                           !.verification_status = VerificationStatus(TRUE, TRUE, TRUE, "set")],
      [BaseCustomer EXCEPT !.id = "S1"] }

InitStore ==
    /\ dbFile \in {DbFile("missing", <<>>), DbFile("json", <<>>)}
                 \cup {DbFile("json", <<r>>) : r \in SeedRecords}
    /\ pc = "new"
    /\ customers = <<>>
    /\ nextId = 0
    /\ disk = {}
    /\ outcome = NoOutcome
    /\ batch = IdleBatch
    /\ auditEvents = <<>>
    /\ checked = NoCheck
    /\ panel = <<>>
    /\ verified = NoVerify
    /\ auditFile = NoAuditFile
    /\ now = 0
    /\ query = NoQuery
    /\ systemLog = NoLine
    /\ loggers = NoLoggers
    /\ worker = NoWorker

\* CustomerManagementPanel.__init__: CustomerDatabase(database_file) and
\* MultiLayerVerificationSystem(database_file) each load the file
PanelOpen ==
    /\ pc = "new"
    /\ LET l == load_database(dbFile) IN
       /\ pc' = IF l.exc THEN "crashed" ELSE "ready"
       /\ panel' = l.customers
       /\ customers' = l.customers
    /\ UNCHANGED <<dbFile, nextId, disk, outcome, batch, auditEvents, checked, verified, auditVars, threadVars>>

\* add_customer_dialog.save_customer: self.database.add_customer, which saves
PanelAdd(data) ==
    /\ pc = "ready"
    /\ nextId < MaxCustomers
    /\ nextId' = nextId + 1
    /\ panel' = add_customer(panel, data, IdName(nextId + 1))
    /\ dbFile' = DbFile("json", panel')
    /\ verified' = NoVerify
    /\ UNCHANGED <<pc, customers, disk, outcome, batch, auditEvents, checked, auditVars, threadVars>>

\* what the edit dialog's fields can be changed to
Edits == {"clear_addresses", "other_domain"}
Edited(r, edit) ==
    IF edit = "clear_addresses" THEN [r EXCEPT !.email_addresses = [k |-> "list", v |-> <<>>]]
    ELSE [r EXCEPT !.email_domain = Str(<<"y">>)]

\* the rows of the customer tree: refresh_customer_list skips inactive records
Listed(i) == i \in DOMAIN panel /\ ~Inactive(panel[i])

\* edit_customer.save_changes: the selected record is changed in place and
\* handed to self.database.update_customer, which saves
PanelEdit(i, edit) ==
    /\ pc = "ready"
    /\ Listed(i)
    /\ panel' = update_customer(panel, panel[i].id, Edited(panel[i], edit)).customers
    /\ dbFile' = DbFile("json", panel')
    /\ verified' = NoVerify
    /\ UNCHANGED <<pc, customers, nextId, disk, outcome, batch, auditEvents, checked, auditVars, threadVars>>

\* CustomerManagementPanel.delete_customer: self.database.delete_customer, which saves
PanelDelete(i) ==
    /\ pc = "ready"
    /\ Listed(i)
    /\ panel' = delete_customer(panel, panel[i].id).customers
    /\ dbFile' = DbFile("json", panel')
    /\ verified' = NoVerify
    /\ UNCHANGED <<pc, customers, nextId, disk, outcome, batch, auditEvents, checked, auditVars, threadVars>>

\* verify_all_customers, one turn of its loop over self.database's records:
\* self.verification_system.verify_customer(customer_id) works on the
\* verifier's database and saves that one
VerifyCustomer(i) ==
    /\ pc = "ready"
    /\ i \in DOMAIN panel
    /\ LET customer_id == panel[i].id
           v == verify_customer(customers, customer_id)
       IN  /\ customers' = v.customers
           /\ dbFile' = IF v.saved THEN DbFile("json", v.customers) ELSE dbFile
           /\ verified' =
                 [n |-> IF verified.n >= 1 /\ verified.id = customer_id THEN 2 ELSE 1,
                  id |-> customer_id,
                  overall_status |-> IF v.exc THEN "raised" ELSE v.overall_status,
                  issues |-> v.issues,
                  prev_status |-> verified.overall_status,
                  prev_issues |-> verified.issues,
                  update |-> NoUpdate]
    /\ UNCHANGED <<pc, panel, nextId, disk, outcome, batch, auditEvents, checked, auditVars, threadVars>>

\* a direct call of self.database.update_customer(customer_id, customer_data),
\* with the id of a record or another one and a dictionary that may carry an
\* id of its own; the file is written only when the record was found
UpdateIds == {"S1", IdName(1), "C9"}
UpdateData ==
    { [BaseCustomer EXCEPT !.file_generation = ListFileGen],
      [BaseCustomer EXCEPT !.id = "C8", !.company_name = Str(<<"b">>)] }
UpdateCustomer(customer_id, customer_data) ==
    /\ pc = "ready"
    /\ LET u == update_customer(panel, customer_id, customer_data) IN
       /\ panel' = u.customers
       /\ dbFile' = IF u.found THEN DbFile("json", u.customers) ELSE dbFile
       /\ verified' = [NoVerify EXCEPT
                          !.update = [id |-> customer_id, found |-> u.found,
                                      data |-> customer_data]]
    /\ UNCHANGED <<pc, customers, nextId, disk, outcome, batch, auditEvents, checked,
                   auditVars, threadVars>>

NextStore ==
    \/ PanelOpen
    \/ \E data \in PanelData : PanelAdd(data)
    \/ \E i \in DOMAIN panel : \E edit \in Edits : PanelEdit(i, edit)
    \/ \E i \in DOMAIN panel : PanelDelete(i)
    \/ \E i \in DOMAIN panel : VerifyCustomer(i)

SpecStore == InitStore /\ [][NextStore]_vars

\* The store under direct calls of update_customer, between adds and deletes.
NextUpdate ==
    \/ PanelOpen
    \/ \E data \in PanelData : PanelAdd(data)
    \/ \E i \in DOMAIN panel : PanelDelete(i)
    \/ \E customer_id \in UpdateIds : \E customer_data \in UpdateData :
          UpdateCustomer(customer_id, customer_data)

SpecUpdate == InitStore /\ [][NextUpdate]_vars

\* ---------------------------------------------------------------- C13
\* C13: after any sequence of add, update and delete operations every record
\* that was once added is still in the stored collection (a delete sets
\* active = false and never removes the record).
C13_AddedRecordsRemain ==
    pc = "ready" =>
        \A n \in 1..nextId : \E i \in DOMAIN panel : panel[i].id = IdName(n)

\* ---------------------------------------------------------------- C14
\* C14: two calls of verify_customer(id) in a row, with no other change to
\* the store in between, return the same overall_status and the same issues.
C14_VerifyCustomerIdempotent ==
    verified.n = 2 =>
        /\ verified.overall_status = verified.prev_status
        /\ verified.issues = verified.prev_issues

\* ---------------------------------------------------------------- C15
\* C15: after any sequence of add, update, delete and verify-customer actions
\* of the dashboard the persisted file holds exactly the records of the
\* store's current collection.
C15_FileIsTheCollection ==
    pc = "ready" => dbFile = DbFile("json", panel)

\* a record the panel added and saved is gone from the file
C15_LostRecord ==
    /\ pc = "ready" /\ dbFile.k = "json"
    /\ \E i \in DOMAIN panel :
          \A j \in DOMAIN dbFile.customers : dbFile.customers[j].id # panel[i].id

\* ---------------------------------------------------------------- the audit logger
\* An optional string argument or field: a str, or None
Opt(v) == [k |-> "str", v |-> v]
None == [k |-> "none", v |-> ""]
\* Python truthiness of such a value, as in `if customer_id and ...`
Truthy(o) == o.k = "str" /\ o.v # ""

\* datetime.isoformat() and datetime.fromisoformat() on the clock's values
IsoFormat(t) == [k |-> "iso", t |-> t]
FromIsoFormat(stamp) == stamp.t
\* a datetime argument
Date(t) == [k |-> "datetime", t |-> t]

\* asdict(AuditEvent(...)) with the enums replaced by their values; user and
\* session_id are the logger's own and the same in every event;
\* __post_init__ derives event_id from timestamp, user and action
AuditEvent(timestamp, event_type, severity, action, customer_id, email_address, success) ==
    [timestamp |-> timestamp, event_type |-> event_type, severity |-> severity,
     action |-> action, customer_id |-> customer_id, email_address |-> email_address,
     success |-> success, event_id |-> <<timestamp.t, action>>]

log_email_send_attempt(t, email, customer_id) ==
    AuditEvent(IsoFormat(t), "email_send_attempt", "info", "email_send_attempt",
               customer_id, Opt(email), TRUE)
log_verification_failure(t, email, customer_id) ==
    AuditEvent(IsoFormat(t), "verification_failure", "critical", "verification_failed",
               customer_id, Opt(email), FALSE)
log_customer_operation(t, operation, customer_id) ==
    AuditEvent(IsoFormat(t),
               CASE operation = "create" -> "customer_created"
                 [] operation = "delete" -> "customer_deleted"
                 [] OTHER -> "customer_updated",
               "info", "customer_" \o operation, Opt(customer_id), None, TRUE)
log_security_violation(t, email) ==
    AuditEvent(IsoFormat(t), "security_violation", "critical",
               "security_violation_domain_spoofing", None, Opt(email), FALSE)

log_email_send_failure(t, email, customer_id) ==
    AuditEvent(IsoFormat(t), "email_send_failure", "error", "email_send_failed",
               customer_id, Opt(email), FALSE)

\* an event of severity WARNING, which a caller builds and hands to log_event
ConfigChange(t) ==
    AuditEvent(IsoFormat(t), "config_change", "warning", "config_change", None, None, TRUE)

\* the events the callers log at time t
Logged(t) ==
    { log_email_send_attempt(t, "a@x", Opt("C1")),
      log_verification_failure(t, "a@y", Opt("unknown")),
      log_customer_operation(t, "update", "C1"),
      log_security_violation(t, "a@x") }

\* what a write of the audit file can come to: the file is written; open()
\* raises and the file stays as it was; or json.dump raises after open() has
\* truncated the file, which leaves a file that is not JSON
Writes == {"written", "refused", "partial"}

\* events of every severity
LoggedIO(t) ==
    Logged(t) \cup {log_email_send_failure(t, "a@x", Opt("C1")), ConfigChange(t)}

\* one event of each severity
Severities(t) ==
    { log_email_send_attempt(t, "a@x", Opt("C1")), ConfigChange(t),
      log_email_send_failure(t, "a@x", Opt("C1")), log_security_violation(t, "a@x") }

\* _save_audit_log with _update_customer_database_audit: the whole log is
\* written to the audit file and, when the customer database file can be
\* read, its last 100 events into that file's 'audit_log'; an exception of
\* the write is logged and swallowed
SaveAuditLog(log, file, db, write) ==
    IF write = "refused" THEN file
    ELSE IF write = "partial"
    THEN [k |-> "partial", events |-> <<>>, database_audit_log |-> file.database_audit_log]
    ELSE [k |-> "json", events |-> log,
          database_audit_log |->
              IF db.k \in {"json", "nokey"}
              THEN SubSeq(log, IF Len(log) > 100 THEN Len(log) - 99 ELSE 1, Len(log))
              ELSE file.database_audit_log]

\* the exception of a failed write, as far as it leaves _save_audit_log: the
\* method's except clause catches Exception, and none does
save_raises_Uncaught(write) == write # "written"

save_raises(write) == FALSE

\* the line _save_audit_log leaves last in logs/audit_system.log after the
\* line before it: its except clause logs the failure, and
\* _update_customer_database_audit logs its own when the database file is
\* there and cannot be read
SaveLine(line, db, write) ==
    IF write # "written" THEN "Failed to save audit log"
    ELSE IF db.k = "malformed" THEN "Failed to update customer database audit log"
    ELSE line

\* log_event as it would be if the log were kept short by dropping its oldest
\* event on every append
log_event_Rotating(log, event) ==
    [log |-> Append(IF log = <<>> THEN log ELSE Tail(log), event),
     save |-> event.severity \in {"error", "critical"}]

\* log_event as it would be if every event were buffered until a later save
log_event_Buffered(log, event) ==
    [log |-> Append(log, event), save |-> FALSE]

\* log_event: the event is appended; [log, save] tells whether
\* _save_audit_log follows (severity ERROR or CRITICAL)
log_event(log, event) ==
    [log |-> Append(log, event), save |-> event.severity \in {"error", "critical"}]

\* the test as it would be if the window's ends were left out
Selected_OpenWindow(event, start_date, end_date, event_type, customer_id, email, severity) ==
    /\ start_date.k = "datetime" => ~(FromIsoFormat(event.timestamp) <= start_date.t)
    /\ end_date.k = "datetime" => ~(FromIsoFormat(event.timestamp) >= end_date.t)
    /\ event_type.k = "str" => event.event_type = event_type.v
    /\ Truthy(customer_id) => event.customer_id = customer_id
    /\ Truthy(email) => event.email_address = email
    /\ severity.k = "str" => event.severity = severity.v

\* get_audit_events, the test of one event
Selected(event, start_date, end_date, event_type, customer_id, email, severity) ==
    /\ start_date.k = "datetime" => ~(FromIsoFormat(event.timestamp) < start_date.t)
    /\ end_date.k = "datetime" => ~(FromIsoFormat(event.timestamp) > end_date.t)
    /\ event_type.k = "str" => event.event_type = event_type.v
    /\ Truthy(customer_id) => event.customer_id = customer_id
    /\ Truthy(email) => event.email_address = email
    /\ severity.k = "str" => event.severity = severity.v

\* get_audit_events as it would be if the window were not looked at
get_audit_events_NoWindow(log, start_date, end_date, event_type, customer_id, email, severity) ==
    SelectSeq(log, LAMBDA event :
        Selected(event, NoDate, NoDate, event_type, customer_id, email, severity))

get_audit_events(log, start_date, end_date, event_type, customer_id, email, severity) ==
    SelectSeq(log, LAMBDA event :
        Selected(event, start_date, end_date, event_type, customer_id, email, severity))

\* the cleanup as it would be if the events stamped exactly at the cutoff went too
cleanup_old_logs_AtCutoff(log, t, days) ==
    SelectSeq(log, LAMBDA event : FromIsoFormat(event.timestamp) > t - days)

\* cleanup_old_logs at time t: the events not older than the cutoff
cleanup_old_logs(log, t, days) ==
    SelectSeq(log, LAMBDA event : FromIsoFormat(event.timestamp) >= t - days)

\* generate_compliance_report: the events of the window, counted and indexed
OfType(events, types) == SelectSeq(events, LAMBDA event : event.event_type \in types)

generate_compliance_report(log, start_date, end_date) ==
    LET events == get_audit_events(log, start_date, end_date, None, None, None, None)
        types == {events[i].event_type : i \in DOMAIN events}
        ids == {events[i].customer_id.v : i \in {j \in DOMAIN events : Truthy(events[j].customer_id)}}
    IN  [total_events |-> Len(events),
         email_attempts |-> Len(OfType(events, {"email_send_attempt"})),
         successful_sends |-> Len(OfType(events, {"email_send_success"})),
         failed_sends |-> Len(OfType(events, {"email_send_failure"})),
         verification_failures |-> Len(OfType(events, {"verification_failure"})),
         security_violations |-> Len(OfType(events, {"security_violation"})),
         customer_operations |->
             Len(OfType(events, {"customer_created", "customer_updated", "customer_deleted"})),
         event_breakdown |-> [type \in types |-> Len(OfType(events, {type}))],
         security_summary |-> OfType(events, {"security_violation"}),
         failed_verifications |-> OfType(events, {"verification_failure"}),
         customer_activity |->
             [id \in ids |->
                 LET own == SelectSeq(events, LAMBDA event : event.customer_id = Opt(id))
                 IN  [i \in DOMAIN own |->
                         [timestamp |-> own[i].timestamp, action |-> own[i].action,
                          success |-> own[i].success]]]]

\* ---- the audit logger's operations
\* the audit file when the logger is constructed: none, or one written by an
\* earlier session, whole or cut short by a failed write
OldEvent == log_verification_failure(0, "a@y", Opt("unknown"))
AuditFiles ==
    { NoAuditFile,
      [k |-> "json", events |-> <<>>, database_audit_log |-> <<>>],
      [k |-> "partial", events |-> <<>>, database_audit_log |-> <<>>],
      [k |-> "json", events |-> <<OldEvent>>, database_audit_log |-> <<OldEvent>>] }

\* _load_audit_log: the file's events; none, and a logged error, when the file
\* is not JSON
load_audit_log(file) ==
    IF file.k = "json" THEN [log |-> file.events, line |-> NoLine]
    ELSE IF file.k = "partial" THEN [log |-> <<>>, line |-> "Failed to load audit log"]
    ELSE [log |-> <<>>, line |-> NoLine]

InitAudit ==
    /\ dbFile = DbFile("json", <<>>)
    /\ pc = "new"
    /\ customers = <<>>
    /\ nextId = 0
    /\ disk = {}
    /\ outcome = NoOutcome
    /\ batch = IdleBatch
    /\ checked = NoCheck
    /\ panel = <<>>
    /\ verified = NoVerify
    /\ auditFile \in AuditFiles
    /\ auditEvents = load_audit_log(auditFile).log
    /\ now = 0
    /\ query = NoQuery
    /\ systemLog = load_audit_log(auditFile).line
    /\ loggers = NoLoggers
    /\ worker = NoWorker

\* what datetime.now() can give: the clock never runs backwards
Clock == {t \in {now, now + 1} : t <= MaxTime}

\* the caller is not inside a call of the logger
Idle == query.op = "none"

\* one of the log_... methods: the event is stamped with datetime.now() and
\* handed to log_event, which saves after an ERROR or CRITICAL event
LogEvent(t, event, write) ==
    /\ Idle
    /\ Len(auditEvents) < MaxEvents
    /\ t \in Clock /\ event \in LoggedIO(t)
    /\ now' = t
    /\ LET l == log_event(auditEvents, event) IN
       /\ auditEvents' = l.log
       /\ auditFile' = IF l.save THEN SaveAuditLog(l.log, auditFile, dbFile, write)
                       ELSE auditFile
       /\ systemLog' = IF l.save THEN SaveLine("AUDIT", dbFile, write) ELSE "AUDIT"
       \* log_event's own except clause catches what _save_audit_log would raise
       /\ query' = [op |-> "log", args |-> <<IF l.save THEN write ELSE "none">>, days |-> 0,
                    events |-> <<event>>, report |-> <<>>, raised |-> FALSE]
    /\ UNCHANGED <<dbFile, pc, customers, nextId, disk, outcome, batch, threadVars,
                   checked, panel,
                   verified>>

\* save_audit_log, the manual save
ManualSave(write) ==
    /\ Idle
    /\ auditFile' = SaveAuditLog(auditEvents, auditFile, dbFile, write)
    /\ systemLog' = SaveLine(systemLog, dbFile, write)
    /\ query' = [op |-> "save", args |-> <<write>>, days |-> 0, events |-> <<>>,
                 report |-> <<>>, raised |-> save_raises(write)]
    /\ UNCHANGED <<dbFile, pc, customers, nextId, disk, outcome, batch, threadVars,
                   auditEvents, checked,
                   panel, verified, now>>

\* the arguments of get_audit_events: a window, and no filter or one
Dates == {NoDate} \cup {Date(t) : t \in 0..MaxTime}
Filters ==
    { <<None, None, None, None>>,
      <<Opt("verification_failure"), None, None, None>>,
      <<None, Opt("C1"), None, None>>,
      <<None, Opt(""), None, None>>,
      <<None, None, Opt("a@x"), None>>,
      <<None, None, None, Opt("critical")>> }

GetAuditEvents(start_date, end_date, f) ==
    /\ Idle
    /\ query' = [op |-> "get", args |-> <<start_date, end_date, f[1], f[2], f[3], f[4]>>,
                 days |-> 0,
                 events |-> get_audit_events(auditEvents, start_date, end_date,
                                             f[1], f[2], f[3], f[4]),
                 report |-> <<>>, raised |-> FALSE]
    /\ UNCHANGED <<dbFile, pc, customers, nextId, disk, outcome, batch, threadVars,
                   auditEvents, checked,
                   panel, verified, auditFile, now, systemLog>>

GenerateComplianceReport(start_date, end_date) ==
    /\ Idle
    /\ start_date.k = "datetime" /\ end_date.k = "datetime"
    /\ query' = [op |-> "report", args |-> <<start_date, end_date>>, days |-> 0,
                 events |-> <<>>,
                 report |-> generate_compliance_report(auditEvents, start_date, end_date),
                 raised |-> FALSE]
    /\ UNCHANGED <<dbFile, pc, customers, nextId, disk, outcome, batch, threadVars,
                   auditEvents, checked,
                   panel, verified, auditFile, now, systemLog>>

\* cleanup_old_logs(days): the events older than now - days are dropped, and
\* the log is saved when one was
Days == {0, 1}
CleanupOldLogs(t, days, write) ==
    /\ Idle
    /\ t \in Clock
    /\ now' = t
    /\ auditEvents' = cleanup_old_logs(auditEvents, t, days)
    /\ auditFile' = IF Len(auditEvents') < Len(auditEvents)
                    THEN SaveAuditLog(auditEvents', auditFile, dbFile, write) ELSE auditFile
    /\ systemLog' = IF Len(auditEvents') < Len(auditEvents)
                    THEN SaveLine("Cleaned up", dbFile, write) ELSE systemLog
    /\ query' = [op |-> "cleanup", args |-> <<>>, days |-> days, events |-> auditEvents,
                 report |-> <<>>, raised |-> FALSE]
    /\ UNCHANGED <<dbFile, pc, customers, nextId, disk, outcome, batch, threadVars,
                   checked, panel, verified>>

\* the call returns to its caller
CallReturns ==
    /\ ~Idle
    /\ query' = NoQuery
    /\ UNCHANGED <<dbFile, pc, customers, nextId, disk, outcome, batch, threadVars,
                   auditEvents, checked,
                   panel, verified, auditFile, now, systemLog>>

\* time passes
Tick ==
    /\ now < MaxTime
    /\ now' = now + 1
    /\ UNCHANGED <<dbFile, pc, customers, nextId, disk, outcome, batch, threadVars,
                   auditEvents, checked,
                   panel, verified, auditFile, query, systemLog>>

\* The logger with its queries; the audit file can be written whenever an
\* event or a cleanup saves (a manual save may fail).
NextAudit ==
    \/ \E t \in Clock : \E event \in Logged(t) : LogEvent(t, event, "written")
    \/ \E write \in Writes : ManualSave(write)
    \/ \E start_date \in Dates, end_date \in Dates, f \in Filters :
          GetAuditEvents(start_date, end_date, f)
    \/ \E start_date \in Dates, end_date \in Dates :
          GenerateComplianceReport(start_date, end_date)
    \/ \E t \in Clock : \E days \in Days : CleanupOldLogs(t, days, "written")
    \/ CallReturns
    \/ Tick

SpecAudit == InitAudit /\ [][NextAudit]_vars

\* The logger's appends and saves, each write of which may fail.
NextAuditIO ==
    \/ \E t \in Clock : \E event \in Severities(t) : \E write \in Writes : LogEvent(t, event, write)
    \/ \E write \in Writes : ManualSave(write)
    \/ CallReturns
    \/ Tick

SpecAuditIO == InitAudit /\ [][NextAuditIO]_vars

\* ---------------------------------------------------------------- C19
\* the last call was get_audit_events, with these arguments
Asked == query.op = "get"
q_start == query.args[1]
q_end == query.args[2]
q_type == query.args[3]
q_customer == query.args[4]
q_email == query.args[5]
q_severity == query.args[6]

\* the event's timestamp lies within the window asked for
InWindow(event) ==
    /\ q_start.k = "datetime" => event.timestamp.t >= q_start.t
    /\ q_end.k = "datetime" => event.timestamp.t <= q_end.t

\* every filter that was given is the event's own value
OwnFilters(event) ==
    /\ q_type.k = "str" => q_type.v = event.event_type
    /\ q_customer.k = "str" => q_customer = event.customer_id
    /\ q_email.k = "str" => q_email = event.email_address
    /\ q_severity.k = "str" => q_severity.v = event.severity

Returns(event) == \E j \in DOMAIN query.events : query.events[j] = event

\* C19: an event appended with log_event is returned by get_audit_events when
\* the filter is its own customer id, its own email address or its own event
\* type (and its timestamp lies in the window, if one is given), and is not
\* returned when its timestamp lies outside the window.
C19_AppendedEventIsFound ==
    Asked =>
        \A i \in DOMAIN auditEvents :
            /\ OwnFilters(auditEvents[i]) /\ InWindow(auditEvents[i]) => Returns(auditEvents[i])
            /\ ~InWindow(auditEvents[i]) => ~Returns(auditEvents[i])

\* an event logged by this session was found by its customer id within a
\* window, while an older event of the log was left out
C19_Witness ==
    /\ Asked /\ q_customer.k = "str" /\ q_start.k = "datetime"
    /\ \E i \in DOMAIN auditEvents :
          /\ auditEvents[i].customer_id = q_customer /\ Returns(auditEvents[i])
    /\ \E i \in DOMAIN auditEvents : ~InWindow(auditEvents[i]) /\ ~Returns(auditEvents[i])

\* ---- C20
\* the events of log at the positions of K, in their order
RECURSIVE Kept(_, _, _)
Kept(log, K, i) ==
    IF i > Len(log) THEN <<>>
    ELSE (IF i \in K THEN <<log[i]>> ELSE <<>>) \o Kept(log, K, i + 1)

\* this step is a call of cleanup_old_logs
CleanupStep == query.op = "none" /\ query'.op = "cleanup"

\* the log after the step is the log before it with nothing or one event added
\* at its end
AppendedOnly ==
    /\ Len(auditEvents') \in {Len(auditEvents), Len(auditEvents) + 1}
    /\ SubSeq(auditEvents', 1, Len(auditEvents)) = auditEvents

\* the log after the step is the log before it less some events that are all
\* older than the cutoff
OnlyOldRemoved ==
    \E K \in SUBSET DOMAIN auditEvents :
        /\ auditEvents' = Kept(auditEvents, K, 1)
        /\ \A i \in DOMAIN auditEvents \ K :
              FromIsoFormat(auditEvents[i].timestamp) < now' - query'.days

\* C20: the in-memory audit log changes only by appending at its end: over
\* log, save, query and report calls the earlier events keep their content and
\* order. Events go only in a cleanup_old_logs call, which removes only events
\* older than its cutoff and leaves the others as they were, in their order;
\* log_event never removes one.
C20_AppendOnlyButCleanup ==
    [][IF CleanupStep THEN OnlyOldRemoved ELSE AppendedOnly]_vars

\* a cleanup has just dropped an old event and kept a newer one
C20_Witness ==
    /\ query.op = "cleanup"
    /\ Len(auditEvents) > 0
    /\ Len(auditEvents) < Len(query.events)
    /\ \E i \in DOMAIN query.events :
          /\ FromIsoFormat(query.events[i].timestamp) < now - query.days
          /\ \A j \in DOMAIN auditEvents : auditEvents[j] # query.events[i]

\* ---- C21
\* this step is a call of log_event: the one step that makes the log longer
LogStep == Len(auditEvents') = Len(auditEvents) + 1
Urgent(event) == event.severity \in {"error", "critical"}

\* the audit file holds every event of the in-memory log
FileHoldsLog(file, log) == file.k = "json" /\ file.events = log

\* the write of the audit file failed: the last line of the logger's own log
SaveFailed(line) == line = "Failed to save audit log"

WriteFailed == query.args[1] \in {"refused", "partial"}

\* C22: a failure while writing the audit file is swallowed: log_event and
\* save_audit_log return normally and the event stays at the end of the
\* in-memory log, and a save_audit_log that succeeds persists every event
\* appended so far, those whose write failed included.
C22_WriteFailureIsSwallowed ==
    /\ query.op = "log" =>
          /\ ~query.raised
          /\ auditEvents # <<>>
          /\ auditEvents[Len(auditEvents)] = query.events[1]
    /\ query.op = "save" =>
          /\ ~query.raised
          /\ query.args[1] = "written" => FileHoldsLog(auditFile, auditEvents)

\* save_audit_log has just written the file, after the write of the last,
\* urgent, event had failed: the file holds that event
C22_Witness ==
    /\ query.op = "save" /\ query.args[1] = "written"
    /\ SaveFailed(systemLog)
    /\ auditEvents # <<>>
    /\ Urgent(auditEvents[Len(auditEvents)])
    /\ FileHoldsLog(auditFile, auditEvents)

\* log_event has just returned after a write that failed: the event is in the
\* in-memory log and not in the file
C22_FailedWriteWitness ==
    /\ query.op = "log" /\ WriteFailed
    /\ auditEvents[Len(auditEvents)] = query.events[1]
    /\ ~FileHoldsLog(auditFile, auditEvents)

\* ---- concurrent appends
\* Two threads log urgent events, both on one AuditLogger or each on an
\* AuditLogger of its own, the loggers constructed on the same audit file.
\* Neither log_event nor _save_audit_log takes a lock: list.append is one step
\* of the interpreter, and the save is open(), which truncates the file, and
\* then json.dump and close, which write the list as it is by then.
Threads == {1, 2}
Urgents(t) == {log_email_send_failure(t, "a@x", Opt("C1")), log_security_violation(t, "a@x")}

InitLoggers ==
    /\ dbFile = DbFile("json", <<>>)
    /\ pc = "new"
    /\ customers = <<>>
    /\ nextId = 0
    /\ disk = {}
    /\ outcome = NoOutcome
    /\ batch = IdleBatch
    /\ checked = NoCheck
    /\ panel = <<>>
    /\ verified = NoVerify
    /\ auditFile \in AuditFiles
    /\ auditEvents = <<>>
    /\ now = 0
    /\ query = NoQuery
    /\ systemLog = load_audit_log(auditFile).line
    /\ \E other \in {1, 2} :
          loggers = [audit_log |-> <<load_audit_log(auditFile).log, load_audit_log(auditFile).log>>,
                     thread |-> <<[logger |-> 1, pc |-> "idle"], [logger |-> other, pc |-> "idle"]>>]
    /\ worker = NoWorker

\* log_event up to its call of _save_audit_log
ThreadAppends(th, event) ==
    LET lg == loggers.thread[th].logger
        l == log_event(loggers.audit_log[lg], event)
    IN  /\ loggers.thread[th].pc = "idle"
        /\ Len(loggers.audit_log[lg]) < MaxEvents
        /\ loggers' = [audit_log |-> [loggers.audit_log EXCEPT ![lg] = l.log],
                       thread |-> [loggers.thread EXCEPT
                                      ![th].pc = IF l.save THEN "save" ELSE "idle"]]
        /\ systemLog' = "AUDIT"
        /\ UNCHANGED <<dbFile, pc, customers, nextId, disk, outcome, batch, auditEvents,
                       checked, panel, verified, auditFile, now, query, worker>>

\* _save_audit_log: open(self.audit_file, 'w')
ThreadOpens(th) ==
    /\ loggers.thread[th].pc = "save"
    /\ auditFile' = SaveAuditLog(<<>>, auditFile, dbFile, "partial")
    /\ loggers' = [loggers EXCEPT !.thread[th].pc = "open"]
    /\ UNCHANGED <<dbFile, pc, customers, nextId, disk, outcome, batch, auditEvents,
                   checked, panel, verified, now, query, systemLog, worker>>

\* the threads that have the audit file open for writing
Writers == {th \in Threads : loggers.thread[th].pc = "open"}

\* _save_audit_log: json.dump and the end of the with block. The bytes land
\* on what is in the file by then: when another thread has the file open, or
\* has written it since this thread's open(), the file can end up not JSON.
ThreadWrites(th, write) ==
    /\ loggers.thread[th].pc = "open"
    /\ write \in {"written", "partial"}
    /\ write = "partial" => Writers # {th} \/ auditFile.k # "partial"
    /\ auditFile' = SaveAuditLog(loggers.audit_log[loggers.thread[th].logger],
                                 auditFile, dbFile, write)
    /\ loggers' = [loggers EXCEPT !.thread[th].pc = "idle"]
    /\ UNCHANGED <<dbFile, pc, customers, nextId, disk, outcome, batch, auditEvents,
                   checked, panel, verified, now, query, systemLog, worker>>

NextLoggers ==
    \/ \E th \in Threads : \E event \in Urgents(now) : ThreadAppends(th, event)
    \/ \E th \in Threads : ThreadOpens(th)
    \/ \E th \in Threads : \E write \in Writes : ThreadWrites(th, write)
    \/ Tick

SpecLoggers == InitLoggers /\ [][NextLoggers]_vars

\* ---- C23
\* every event a logger holds is in the audit file
NothingLost ==
    \A th \in Threads :
        LET log == loggers.audit_log[loggers.thread[th].logger] IN
        \A i \in DOMAIN log :
            /\ auditFile.k = "json"
            /\ \E j \in DOMAIN auditFile.events : auditFile.events[j] = log[i]

\* C23: concurrent appends and saves are serialized: the audit file has at
\* most one writer at a time, and once the last save is done every appended
\* event is in the file.
C23_AppendsAndSavesSerialized ==
    /\ Cardinality(Writers) <= 1
    /\ (\A th \in Threads : loggers.thread[th].pc = "idle") => NothingLost

\* the two halves of the claim, each of which fails
C23_OneWriter == Cardinality(Writers) <= 1
C23_NothingLostAfterSaves ==
    (\A th \in Threads : loggers.thread[th].pc = "idle") => NothingLost

\* ---- C24
Reported == query.op = "report"

\* the positions of the log whose event is stamped within [start, end]
WindowIdx ==
    {i \in DOMAIN auditEvents :
        /\ query.args[1].t <= auditEvents[i].timestamp.t
        /\ auditEvents[i].timestamp.t <= query.args[2].t}
TypeIdx(type) == {i \in WindowIdx : auditEvents[i].event_type = type}
CustomerIdx(id) == {i \in WindowIdx : auditEvents[i].customer_id = Opt(id)}

\* what customer_activity keeps of an event
Activity(event) ==
    [timestamp |-> event.timestamp, action |-> event.action, success |-> event.success]

\* C24: generate_compliance_report(start, end) covers exactly the events
\* stamped within [start, end]: total_events and event_breakdown count them,
\* failed_verifications and security_summary list those of their type, and
\* customer_activity indexes those that carry a customer id.
C24_ReportCoversTheWindow ==
    Reported =>
        LET r == query.report IN
        /\ r.total_events = Cardinality(WindowIdx)
        /\ DOMAIN r.event_breakdown = {auditEvents[i].event_type : i \in WindowIdx}
        /\ \A type \in DOMAIN r.event_breakdown :
              r.event_breakdown[type] = Cardinality(TypeIdx(type))
        /\ r.failed_verifications = Kept(auditEvents, TypeIdx("verification_failure"), 1)
        /\ r.security_summary = Kept(auditEvents, TypeIdx("security_violation"), 1)
        /\ DOMAIN r.customer_activity =
              {auditEvents[i].customer_id.v :
                  i \in {j \in WindowIdx : auditEvents[j].customer_id.k = "str"}}
        /\ \A id \in DOMAIN r.customer_activity :
              LET own == Kept(auditEvents, CustomerIdx(id), 1) IN
              r.customer_activity[id] = [i \in DOMAIN own |-> Activity(own[i])]

\* a report over a window that leaves an event out and holds a verification
\* failure of a customer
C24_Witness ==
    /\ Reported
    /\ Cardinality(WindowIdx) < Len(auditEvents)
    /\ query.report.failed_verifications # <<>>
    /\ DOMAIN query.report.customer_activity # {}

\* ---- C25
\* this step is a direct call of update_customer
UpdateStep == verified'.update.id # "" /\ verified' # verified
InStore(customer_id) == \E i \in DOMAIN panel : panel[i].id = customer_id

\* C25: update_customer on an id that is not in the store gives the
\* not-found outcome and leaves the in-memory collection and the file as they
\* were; on an id of the store it replaces the record's fields by the given
\* ones, the record keeps its id and its place, the other records are left
\* alone, and the collection is saved.
C25_UpdateCustomerFrame ==
    [][UpdateStep =>
          LET u == verified'.update IN
          IF ~InStore(u.id)
          THEN ~u.found /\ panel' = panel /\ dbFile' = dbFile
          ELSE /\ u.found
               /\ DOMAIN panel' = DOMAIN panel
               /\ \E i \in DOMAIN panel :
                     /\ panel[i].id = u.id
                     /\ panel'[i] = [u.data EXCEPT !.id = u.id, !.updated_at = "set"]
                     /\ \A j \in DOMAIN panel \ {i} : panel'[j] = panel[j]
               /\ dbFile' = DbFile("json", panel')]_vars

\* update_customer has just returned not-found on a store that holds records
C25_Witness ==
    /\ verified.update.id # ""
    /\ ~verified.update.found
    /\ panel # <<>>
    /\ ~InStore(verified.update.id)

\* update_customer has just replaced a record by a dictionary that carried
\* another id: the record has its old id
C25_KeptIdWitness ==
    /\ verified.update.found
    /\ verified.update.data.id = "C8"
    /\ \E i \in DOMAIN panel :
          /\ panel[i].id = verified.update.id
          /\ panel[i].company_name = verified.update.data.company_name
    /\ ~InStore("C8")

\* ---- the customer panel of dashboard_v2.py
\* Its handlers work on self.database.data['customers'] (panel) themselves
\* and write the file with json.dump; the verifier keeps its own collection
\* (customers), read when the panel was built.

\* customer['verification_status'] as dashboard_v2.py writes it
StatusV2(domain, file_path, filename, last_verification) ==
    [k |-> "dict", domain_verified |-> domain, file_path_verified |-> file_path,
     filename_verified |-> filename, last_verification |-> last_verification]

\* os.path.exists(file_path): the directory holds a file
PathExists(dsk, file_path) ==
    file_path.k = "str" /\ \E f \in dsk : \E name \in {<<"p", "A">>, <<"p">>} :
        f = PathJoin(file_path.v, name)

\* f"{clean_name}_{datetime.now().strftime('%Y%m%d')}"
IdV2(company_name) == IF company_name.v = <<"a">> THEN "a_date" ELSE "b_date"

\* the panel is built: both collections hold the file's records
InitPanelV2 ==
    /\ dbFile \in {DbFile("json", <<>>)} \cup {DbFile("json", <<r>>) : r \in SeedRecords}
    /\ pc = "ready"
    /\ customers = dbFile.customers
    /\ nextId = 0
    /\ disk \in {{}, {<<"d", "/", "p", "A">>}}
    /\ outcome = NoOutcome
    /\ batch = IdleBatch
    /\ auditEvents = <<>>
    /\ checked = NoCheck
    /\ panel = dbFile.customers
    /\ verified = NoVerify
    /\ auditFile = NoAuditFile
    /\ now = 0
    /\ query = NoQuery
    /\ systemLog = NoLine
    /\ loggers = NoLoggers
    /\ worker = NoWorker

\* the form of add_new_customer: company, domain, addresses and file path
\* are filled in
NewCustomers ==
    { BaseCustomer,
      [BaseCustomer EXCEPT !.email_domain = Str(<<"y">>), !.company_name = Str(<<"b">>),
                           !.email_addresses = [k |-> "list", v |-> <<e_ay>>]] }

\* add_new_customer: the record is appended with the status block the
\* handler builds, and the file written
AddNewCustomer(data) ==
    /\ pc = "ready"
    /\ nextId < MaxCustomers
    /\ nextId' = nextId + 1
    /\ panel' = Append(panel,
                       [data EXCEPT
                           !.id = IdV2(data.company_name),
                           !.verification_status =
                               StatusV2(TRUE, PathExists(disk, data.file_generation.file_path),
                                        FALSE, "set"),
                           !.last_verified = "date"])
    /\ dbFile' = DbFile("json", panel')
    /\ verified' = NoVerify
    /\ UNCHANGED <<pc, customers, disk, outcome, batch, auditEvents, checked, auditVars,
                   threadVars>>

\* save_customer_changes: the first record with the edited id takes the
\* form's fields and a status block of the handler's own, and the file is
\* written
SaveCustomerChanges(i, edit) ==
    /\ pc = "ready"
    /\ Listed(i)
    /\ panel[i].file_generation.k = "dict"
    /\ LET customer_index == get_customer_by_id(panel, panel[i].id, 1)
           customer == Edited(panel[customer_index], edit)
           file_exists == PathExists(disk, customer.file_generation.file_path)
       IN  panel' = [panel EXCEPT ![customer_index] =
                        [customer EXCEPT
                            !.verification_status = StatusV2(TRUE, file_exists, file_exists, "set"),
                            !.last_verified = "date"]]
    /\ dbFile' = DbFile("json", panel')
    /\ verified' = NoVerify
    /\ UNCHANGED <<pc, customers, nextId, disk, outcome, batch, auditEvents, checked,
                   auditVars, threadVars>>

NextPanelV2 ==
    \/ \E data \in NewCustomers : AddNewCustomer(data)
    \/ \E i \in DOMAIN panel : \E edit \in Edits : SaveCustomerChanges(i, edit)
    \/ \E i \in DOMAIN panel : VerifyCustomer(i)
    \/ \E recipient_name \in RecipientNames, attachment_file \in Attachments :
          VerifyEmailSend(Str(e_ax), recipient_name, attachment_file)
    \/ ReportShown

SpecPanelV2 == InitPanelV2 /\ [][NextPanelV2]_vars

\* ---- C26
\* the status block of a record nobody has verified
Unverified(status) == status.k = "dict" /\ ~status.domain_verified

\* this step is the explicit verify-customer action on that record
VerifyStepOn(customer_id) == verified'.n >= 1 /\ verified'.id = customer_id

\* in the step from old to new, a record that comes into the collection is
\* unverified, and the status of one that was there is changed by nothing but
\* the verify-customer action
StatusKept(old, new) ==
    \A i \in DOMAIN new :
        IF i \in DOMAIN old
        THEN new[i].verification_status # old[i].verification_status =>
                 VerifyStepOn(old[i].id)
        ELSE Unverified(new[i].verification_status)

\* C26: a record's verification status starts as unverified when the record
\* is added and afterwards changes only through the explicit verify-customer
\* action; editing a record or verifying a send candidate does not change it.
C26_StatusChangesOnlyByVerify ==
    [][StatusKept(panel, panel') /\ StatusKept(customers, customers')]_vars

\* the two halves of the claim for the panel's handlers, each of which fails
C26_AddedUnverified ==
    [][\A i \in DOMAIN panel' \ DOMAIN panel :
          Unverified(panel'[i].verification_status)]_vars
C26_EditKeepsStatus ==
    [][\A i \in DOMAIN panel :
          panel'[i].verification_status = panel[i].verification_status]_vars

\* ---- C27
\* the report was made for a customer record that was found
Resolved == Returned /\ rep.customer_id \notin {"unknown", "error"}

CheckOrder ==
    <<"domain_verification", "email_authorization", "recipient_validation",
      "file_existence", "filename_pattern">>

\* C27: whenever a customer record is resolved, the results in the report of
\* verify_email_send come in the order domain_verification,
\* email_authorization, recipient_validation, file_existence,
\* filename_pattern, whatever the outcome of each check.
C27_ResultsInFixedOrder ==
    Resolved =>
        [i \in DOMAIN rep.verification_results |-> rep.verification_results[i].check_name]
            = CheckOrder

\* a report in that order whose first check passed, and in which a check of
\* level 1 and one of level 2 failed
C27_Witness ==
    /\ Resolved
    /\ Len(rep.verification_results) = 5
    /\ rep.verification_results[1].passed
    /\ ~rep.verification_results[3].passed
    /\ ~rep.verification_results[4].passed
    /\ rep.verification_results[5].check_name = "filename_pattern"

\* ---- C28
\* C28: in every report of verify_email_send made for a resolved customer
\* record the domain_verification result has passed = true: the record is
\* found by the candidate's own domain, so a candidate of another domain
\* shows as a failed lookup and never as a failed domain check.
C28_ResolvedDomainCheckPasses ==
    Resolved =>
        \A i \in DOMAIN rep.verification_results :
            rep.verification_results[i].check_name = "domain_verification" =>
                rep.verification_results[i] = Result("domain_verification", "info", TRUE)

\* a report for a candidate whose domain is the record's in other letter
\* case: the domain check passed, another check failed
C28_Witness ==
    /\ Resolved
    /\ rep.email = Str(e_AX)
    /\ rep.verification_results[1] = Result("domain_verification", "info", TRUE)
    /\ rep.overall_status = "FAIL"

\* ---- C29
\* the preview the caller holds next to the report
Previewed == Returned /\ ~outcome.preview.raised

\* C29: get_verification_preview never reports can_send = true for a
\* candidate and store on which verify_email_send reports can_send = false,
\* and for a candidate with no customer record it reports status "FAIL" and
\* can_send = false.
C29_PreviewNeverOverpromises ==
    Previewed =>
        /\ ~rep.can_send => ~outcome.preview.can_send
        /\ rep.customer_id = "unknown" =>
              outcome.preview.status = "FAIL" /\ ~outcome.preview.can_send

\* the half of the claim that holds: no record, no send
C29_UnknownPreviewFails ==
    Previewed /\ rep.customer_id = "unknown" =>
        outcome.preview.status = "FAIL" /\ ~outcome.preview.can_send

\* the preview lets through a send that verify_email_send blocks
C29_Overpromise ==
    Previewed /\ ~rep.can_send /\ outcome.preview.can_send

\* ---- the verify-all worker of dashboard.py
\* worker.threads holds the verification_thread()s that run, each with its
\* place (pc) and its loop index; worker.exit tells how the last one left its
\* try block.

\* verify_all_customers as it would be if the button were left enabled
verify_all_customers_ButtonLeftOn(w) ==
    [verify_all_btn |-> w.verify_all_btn,
     threads |-> Append(w.threads, [pc |-> "start", idx |-> 0]),
     exit |-> "none"]

\* verify_all_customers, on the main thread: the button is disabled and the
\* thread started
verify_all_customers(w) ==
    [verify_all_btn |-> "disabled",
     threads |-> Append(w.threads, [pc |-> "start", idx |-> 0]),
     exit |-> "none"]

\* a click on the button; a disabled ttk.Button does not call its command
ClickVerifyAll ==
    /\ pc = "ready"
    /\ worker.verify_all_btn = "normal"
    /\ Len(worker.threads) < 2
    /\ worker' = verify_all_customers(worker)
    /\ UNCHANGED <<dbFile, pc, customers, nextId, disk, outcome, batch, auditEvents, checked,
                   panel, verified, auditVars, loggers>>

\* the thread moves to pc, its loop index to idx; how it left the try block
Moved(th, to, idx, exit) ==
    [worker EXCEPT !.threads[th] = [pc |-> to, idx |-> idx], !.exit = exit]

\* self.database.get_all_customers() and the test of its length
WorkerStarts(th) ==
    /\ th \in DOMAIN worker.threads
    /\ worker.threads[th].pc = "start"
    /\ worker' = IF Len(get_all_customers(panel)) = 0
                 THEN Moved(th, "finally", 0, "empty")
                 ELSE Moved(th, "loop", 1, worker.exit)
    /\ UNCHANGED <<dbFile, pc, customers, nextId, disk, outcome, batch, auditEvents, checked,
                   panel, verified, auditVars, loggers>>

\* one turn of the loop over the list get_all_customers returned, which is
\* the panel's own list: customer['company_name'] and verify_customer can
\* raise, and the except clause is then followed by the finally clause
WorkerVerifies(th) ==
    /\ th \in DOMAIN worker.threads
    /\ worker.threads[th].pc = "loop"
    /\ LET idx == worker.threads[th].idx IN
       IF idx > Len(panel)
       THEN /\ worker' = Moved(th, "summary", idx, worker.exit)
            /\ UNCHANGED <<customers, dbFile>>
       ELSE LET v == verify_customer(customers, panel[idx].id) IN
            IF panel[idx].company_name.k = "missing" \/ v.exc
            THEN /\ worker' = Moved(th, "finally", idx, "exception")
                 /\ UNCHANGED <<customers, dbFile>>
            ELSE /\ worker' = Moved(th, "loop", idx + 1, worker.exit)
                 /\ customers' = v.customers
                 /\ dbFile' = IF v.saved THEN DbFile("json", v.customers) ELSE dbFile
    /\ UNCHANGED <<pc, nextId, disk, outcome, batch, auditEvents, checked, panel, verified,
                   auditVars, loggers>>

\* the summary and refresh_customer_list, which reads
\* customer['verification_status']['domain_verified'] of every active record
WorkerSummary(th) ==
    /\ th \in DOMAIN worker.threads
    /\ worker.threads[th].pc = "summary"
    /\ worker' = IF \E i \in DOMAIN panel : Listed(i) /\ panel[i].verification_status.k # "dict"
                 THEN Moved(th, "finally", 0, "exception")
                 ELSE Moved(th, "finally", 0, "completed")
    /\ UNCHANGED <<dbFile, pc, customers, nextId, disk, outcome, batch, auditEvents, checked,
                   panel, verified, auditVars, loggers>>

\* the finally clause: the button is enabled again, the thread ends
WorkerEnds(th) ==
    /\ th \in DOMAIN worker.threads
    /\ worker.threads[th].pc = "finally"
    /\ worker' = [worker EXCEPT
                     !.verify_all_btn = "normal",
                     !.threads = SubSeq(worker.threads, 1, th - 1)
                                     \o SubSeq(worker.threads, th + 1, Len(worker.threads))]
    /\ UNCHANGED <<dbFile, pc, customers, nextId, disk, outcome, batch, auditEvents, checked,
                   panel, verified, auditVars, loggers>>

WorkerStep ==
    \E th \in {1, 2} :
        WorkerStarts(th) \/ WorkerVerifies(th) \/ WorkerSummary(th) \/ WorkerEnds(th)

\* The panel stays in use while the worker runs.
NextWorker ==
    \/ PanelOpen
    \/ \E data \in PanelData : PanelAdd(data)
    \/ \E i \in DOMAIN panel : PanelDelete(i)
    \/ ClickVerifyAll
    \/ \E th \in {1, 2} : WorkerStarts(th)
    \/ \E th \in {1, 2} : WorkerVerifies(th)
    \/ \E th \in {1, 2} : WorkerSummary(th)
    \/ \E th \in {1, 2} : WorkerEnds(th)

\* a started thread is scheduled until it ends
SpecWorker == InitStore /\ [][NextWorker]_vars /\ WF_vars(WorkerStep)

C30_EmptyWitness ==
    worker.exit = "empty" /\ worker.threads = <<>> /\ worker.verify_all_btn = "normal"
C30_CompletedWitness ==
    worker.exit = "completed" /\ worker.threads = <<>> /\ worker.verify_all_btn = "normal"

====
